---------------------------- MODULE Spec2Model ----------------------------
(***************************************************************************)
(* A model of python/akg/utils/op_dsl.py: the numpy reference kernels and  *)
(* the code-fragment generators of the operator registry.                  *)
(*                                                                         *)
(* An array is a record [shape, data]: its shape and its elements in       *)
(* row-major (C) order, which is what reshape keeps and what transpose and *)
(* indexing permute.  A Python exception is a record [raised |-> name].    *)
(*                                                                         *)
(* Every kernel is a pure function, so each is an operator here, and each  *)
(* family of kernels has a specification of its own (SpecLayout, ...)      *)
(* whose Init draws the arguments and whose actions apply the kernels.     *)
(* The state is the call in progress: pc (where it is), arg (the           *)
(* arguments) and out (what has been returned so far).                     *)
(***************************************************************************)
EXTENDS Integers, Sequences, FiniteSets, TLC

VARIABLES pc, arg, out

vars == <<pc, arg, out>>

(***************************************************************************)
(* Python and numpy primitives the kernels are written with.               *)
(***************************************************************************)

\* The value a call returns when it raises: the exception's type and the
\* format names its message carries.
Raise(name, mentions) == [raised |-> name, mentions |-> mentions]

IsRaised(v) == "raised" \in DOMAIN v

RECURSIVE Prod(_)
\* np.prod of a shape (1 for the empty shape).
Prod(s) == IF s = <<>> THEN 1 ELSE Head(s) * Prod(Tail(s))

\* s[lo:hi] of Python, for 0 <= lo: the elements at 0-based lo .. hi-1.
PySlice(s, lo, hi) ==
    LET h == IF hi > Len(s) THEN Len(s) ELSE hi
    IN  IF lo >= h THEN <<>> ELSE [i \in 1..(h - lo) |-> s[lo + i]]

\* data.strides[k] / data.itemsize of a C-contiguous array, k 0-based.
ElemStride(shape, k) == Prod(PySlice(shape, k + 1, Len(shape)))

RECURSIVE RavelFrom(_, _, _)
\* The row-major offset of the index tuple idx (0-based components) from
\* axis k (1-based) on.
RavelFrom(idx, shape, k) ==
    IF k > Len(shape) THEN 0
    ELSE idx[k] * ElemStride(shape, k - 1) + RavelFrom(idx, shape, k + 1)

Ravel(idx, shape) == RavelFrom(idx, shape, 1)

\* The index tuple of the element at row-major offset p (0-based).
Unravel(p, shape) ==
    [k \in 1..Len(shape) |-> (p \div ElemStride(shape, k - 1)) % shape[k]]

\* a[idx] for a full index tuple.
At(a, idx) == a.data[Ravel(idx, a.shape) + 1]

\* np.zeros(shape)
np_zeros(shape) == [shape |-> shape, data |-> [p \in 1..Prod(shape) |-> 0]]

\* a.reshape(shape): the same elements in the same order, or a ValueError
\* when the sizes differ.
np_reshape(a, shape) ==
    IF Prod(shape) # Prod(a.shape) THEN Raise("ValueError", {})
    ELSE [shape |-> shape, data |-> a.data]

RECURSIVE TransposeOffset(_, _, _, _, _, _)
\* The offset in the source of the element at offset p of the transposed
\* array: axis i of the result is axis axes[i] of the source.
TransposeOffset(p, oshape, ostr, istr, axes, i) ==
    IF i > Len(oshape) THEN 0
    ELSE ((p \div ostr[i]) % oshape[i]) * istr[axes[i] + 1]
         + TransposeOffset(p, oshape, ostr, istr, axes, i + 1)

\* a.transpose(axes), axes 0-based as in Python.
np_transpose(a, axes) ==
    LET r      == Len(a.shape)
        oshape == [i \in 1..r |-> a.shape[axes[i] + 1]]
        ostr   == [i \in 1..r |-> ElemStride(oshape, i - 1)]
        istr   == [i \in 1..r |-> ElemStride(a.shape, i - 1)]
    IN  [shape |-> oshape,
         data  |-> [q \in 1..Prod(oshape) |->
                      a.data[TransposeOffset(q - 1, oshape, ostr, istr, axes, 1) + 1]]]

\* The number of axes among the first i of an index expression that the
\* result keeps (an integer index removes its axis).
RECURSIVE KeptUpTo(_, _)
KeptUpTo(ix, i) ==
    IF i = 0 THEN 0
    ELSE KeptUpTo(ix, i - 1) + (IF ix[i].k = "int" THEN 0 ELSE 1)

\* The extent of axis i of a[ix]: ":" keeps it, ":n" cuts it to n.
IndexedExtent(a, ix, i) ==
    IF ix[i].k = "upto" /\ ix[i].n < a.shape[i] THEN ix[i].n ELSE a.shape[i]

RECURSIVE IndexOffset(_, _, _, _, _, _)
\* The offset in a of the element at offset p of a[ix].
IndexOffset(p, a, ix, oshape, istr, i) ==
    IF i > Len(a.shape) THEN 0
    ELSE (IF ix[i].k = "int" THEN ix[i].n
          ELSE LET j == KeptUpTo(ix, i)
               IN  (p \div ElemStride(oshape, j - 1)) % oshape[j]) * istr[i]
         + IndexOffset(p, a, ix, oshape, istr, i + 1)

\* a[ix] of numpy for an index expression with one entry per axis, each
\* ":" (k = "all"), ":n" (k = "upto", n >= 0) or an integer n >= 0
\* (k = "int"), which must be inside the axis.
np_index(a, ix) ==
    IF \E i \in 1..Len(ix) : ix[i].k = "int" /\ ix[i].n >= a.shape[i]
    THEN Raise("IndexError", {})
    ELSE LET r      == Len(a.shape)
             kept   == SelectSeq([i \in 1..r |-> i], LAMBDA i : ix[i].k # "int")
             oshape == [j \in 1..Len(kept) |-> IndexedExtent(a, ix, kept[j])]
             istr   == [i \in 1..r |-> ElemStride(a.shape, i - 1)]
         IN  [shape |-> oshape,
              data  |-> [q \in 1..Prod(oshape) |->
                           a.data[IndexOffset(q - 1, a, ix, oshape, istr, 1) + 1]]]

AxisAll == [k |-> "all", n |-> 0]
AxisUpTo(n) == [k |-> "upto", n |-> n]
AxisAt(n) == [k |-> "int", n |-> n]

\* pad[..., :m, :n] = a, where a has pad's leading extents and trailing
\* extents (m, n) no larger than pad's.
AssignTrailingBlock(pad, a) ==
    LET r  == Len(a.shape)
        m  == a.shape[r - 1]
        n  == a.shape[r]
        pm == pad.shape[r - 1]
        pn == pad.shape[r]
    IN  [shape |-> pad.shape,
         data  |-> [q \in 1..Prod(pad.shape) |->
                      LET p   == q - 1
                          col == p % pn
                          row == (p \div pn) % pm
                          b   == p \div (pm * pn)
                      IN  IF row < m /\ col < n
                          THEN a.data[b * m * n + row * n + col + 1]
                          ELSE pad.data[q]]]

(***************************************************************************)
(* Layout converter: trans_data_two2fractal and trans_data_fractal2two.    *)
(***************************************************************************)

\* The tile edge m0 = n0 of the fractal layout.
Tile == 16

\* [x for x in range(k)] + [x + k for x in axes]
ShiftedAxes(k, axes) ==
    [i \in 1..(k + Len(axes)) |-> IF i <= k THEN i - 1 ELSE axes[i - k] + k]

\* pad_input of trans_data_two2fractal: zeros of the padded shape, with the
\* input copied in by the branch for its rank (there is one for ranks 2, 3
\* and 4 and none for any other rank).
PadInput(input_, pad_shape) ==
    IF Len(input_.shape) \in {2, 3, 4}
    THEN AssignTrailingBlock(np_zeros(pad_shape), input_)
    ELSE np_zeros(pad_shape)

trans_data_two2fractal(input_, src_format, dst_format) ==
    LET shape == input_.shape
        r     == Len(shape)
    IN  IF src_format = "DefaultFormat" \/ src_format = "NCHW"
        THEN LET m        == shape[r - 1]
                 n        == shape[r]
                 need_pad == m % Tile # 0 \/ n % Tile # 0
                 pad_m    == ((m + Tile - 1) \div Tile) * Tile
                 pad_n    == ((n + Tile - 1) \div Tile) * Tile
                 pad_shape == [i \in 1..r |-> IF i = r THEN pad_n
                                              ELSE IF i = r - 1 THEN pad_m
                                              ELSE shape[i]]
                 m1       == IF need_pad THEN pad_m \div Tile ELSE m \div Tile
                 n1       == IF need_pad THEN pad_n \div Tile ELSE n \div Tile
                 reshape_shape == PySlice(shape, 0, r - 2) \o <<m1, Tile, n1, Tile>>
                 reshape_input ==
                     IF need_pad
                     THEN np_reshape(PadInput(input_, pad_shape), reshape_shape)
                     ELSE np_reshape(input_, reshape_shape)
             IN  IF dst_format = "FRACTAL_NZ"
                 THEN np_transpose(reshape_input, ShiftedAxes(r - 2, <<2, 0, 1, 3>>))
                 ELSE Raise("ValueError", {dst_format, src_format})
        ELSE Raise("ValueError", {src_format})

trans_data_fractal2two(input_, shape_origin) ==
    LET shape == input_.shape
        r     == Len(shape)
        n1    == shape[r - 3]
        m1    == shape[r - 2]
        m0    == shape[r - 1]
        n0    == shape[r]
        new_shape  == PySlice(shape, 0, r - 4) \o <<m1 * m0, n1 * n0>>
        bench_mark == np_reshape(
                          np_transpose(input_, ShiftedAxes(r - 4, <<1, 2, 0, 3>>)),
                          new_shape)
    IN  IF new_shape # shape_origin
        THEN IF Len(shape_origin) = 2
             THEN np_index(bench_mark, <<AxisUpTo(shape_origin[1]), AxisUpTo(shape_origin[2])>>)
             ELSE IF Len(shape_origin) = 3
             THEN np_index(bench_mark,
                           <<AxisAll, AxisAt(shape_origin[1]), AxisUpTo(shape_origin[2])>>)
             ELSE IF Len(shape_origin) = 4
             THEN np_index(bench_mark,
                           <<AxisAll, AxisAll, AxisAt(shape_origin[1]), AxisUpTo(shape_origin[2])>>)
             ELSE bench_mark
        ELSE bench_mark

\* Trailing extents around the tile edge: below it, a multiple of it, and
\* above it (two tiles).
TrailingExtents == {1, Tile - 1, Tile, Tile + 1}

\* The largest extent of a leading (batch) axis and the largest rank drawn.
MaxBatch == 2
MaxRank == 5

LayoutFormats == {"DefaultFormat", "NCHW", "FRACTAL_NZ", "NC1HWC0"}

\* The array of a shape whose element at row-major offset p is p + 1: its
\* elements are pairwise different and none is the zero of the padding, so
\* an element that moved, was lost or was overwritten shows.
Iota(shape) == [shape |-> shape, data |-> [p \in 1..Prod(shape) |-> p]]

\* No value returned yet.
NoValue == [shape |-> <<>>, data |-> <<>>]

LayoutShapes ==
    {b \o <<m, n>> : b \in UNION {[1..k -> 1..MaxBatch] : k \in 0..(MaxRank - 2)},
                     m \in TrailingExtents, n \in TrailingExtents}

InitLayout ==
    /\ pc = "start"
    /\ out = NoValue
    /\ \E shape \in LayoutShapes, src \in LayoutFormats, dst \in LayoutFormats :
          arg = [input_ |-> Iota(shape), src_format |-> src, dst_format |-> dst]

\* bench_mark = trans_data_two2fractal(input_, src_format, dst_format)
Two2Fractal ==
    /\ pc = "start"
    /\ out' = trans_data_two2fractal(arg.input_, arg.src_format, arg.dst_format)
    /\ pc' = IF IsRaised(out') THEN "raised" ELSE "fractal"
    /\ UNCHANGED arg

\* trans_data_fractal2two(bench_mark, input_.shape): the way back, cropped
\* to the shape of the array the fractal one was made from.
Fractal2Two ==
    /\ pc = "fractal"
    /\ out' = trans_data_fractal2two(out, arg.input_.shape)
    /\ pc' = IF IsRaised(out') THEN "raised" ELSE "dense"
    /\ UNCHANGED arg

\* The element the claimed fractal layout holds at offset p of a result of
\* shape batch \o <<n1, m1, Tile, Tile>> made from the dense array a:
\* a[..., r, c] at [..., c div Tile, r div Tile, r mod Tile, c mod Tile],
\* and zero where (r, c) is outside a.
FractalElement(a, oshape, p) ==
    LET k   == Len(a.shape) - 2
        idx == Unravel(p, oshape)
        row == idx[k + 2] * Tile + idx[k + 3]
        col == idx[k + 1] * Tile + idx[k + 4]
    IN  IF row < a.shape[k + 1] /\ col < a.shape[k + 2]
        THEN At(a, PySlice(idx, 0, k) \o <<row, col>>)
        ELSE 0

\* The fractal layout of the dense array a, as the layout is defined.
FractalOf(a) ==
    LET k      == Len(a.shape) - 2
        oshape == PySlice(a.shape, 0, k)
                  \o <<(a.shape[k + 2] + Tile - 1) \div Tile,
                       (a.shape[k + 1] + Tile - 1) \div Tile, Tile, Tile>>
    IN  [shape |-> oshape,
         data  |-> [q \in 1..Prod(oshape) |-> FractalElement(a, oshape, q - 1)]]

\* C1: for every dense array A of rank 2, 3 or 4 with positive trailing
\* extents, multiples of 16 or not, converting A from DefaultFormat to
\* FRACTAL_NZ and back with A's shape as the original shape yields an array
\* of A's shape that equals A element for element.
C1_RoundTrip ==
    (/\ pc \in {"dense", "raised"}
     /\ arg.src_format = "DefaultFormat" /\ arg.dst_format = "FRACTAL_NZ"
     /\ Len(arg.input_.shape) \in {2, 3, 4})
    => out = arg.input_

\* C2: for every dense array A of rank >= 2, whatever the number of its
\* leading batch axes, trans_data_two2fractal returns an array with trailing
\* axes (ceil(n/16), ceil(m/16), 16, 16) that holds A[..., r, c] at
\* [..., c div 16, r div 16, r mod 16, c mod 16] and zero everywhere else.
C2_NoDataDropped ==
    (/\ pc = "fractal"
     /\ arg.src_format = "DefaultFormat" /\ arg.dst_format = "FRACTAL_NZ")
    => out = FractalOf(arg.input_)

(***************************************************************************)
(* Index kernels: gather_nd_np and tensor_scatter_add_np.                  *)
(***************************************************************************)

\* int(a / b) of Python for b > 0: the quotient cut towards zero.
PyIntDiv(a, b) == IF a >= 0 THEN a \div b ELSE -((-a) \div b)

\* new_indices[i, k] of indices.reshape(-1, width), i and k 0-based.
NewIndex(indices, width, i, k) == indices.data[i * width + k + 1]

\* Inbound without its test temp_idx >= 0.
InboundUpperOnly(data_shape, indices, width, ncoord, i) ==
    \A k \in 0..(ncoord - 1) :
        NewIndex(indices, width, i, k) < data_shape[k + 1]

\* inbound after the k loop of row i: every component of the coordinate is
\* inside [0, data_shape[k]).  It is set to True again for every (i, j).
Inbound(data_shape, indices, width, ncoord, i) ==
    \A k \in 0..(ncoord - 1) :
        /\ NewIndex(indices, width, i, k) >= 0
        /\ NewIndex(indices, width, i, k) < data_shape[k + 1]

RECURSIVE IndexWrite(_, _, _, _, _, _, _)
\* index_write[0] after the k loop of row i, started from w at component k:
\* each round adds temp_idx * strides[k] / itemsize and then divides the sum
\* so far by width_out = out.shape[1].
IndexWrite(data_shape, indices, width, ncoord, width_out, i, kw) ==
    IF kw[1] = ncoord THEN kw[2]
    ELSE IndexWrite(data_shape, indices, width, ncoord, width_out, i,
             <<kw[1] + 1,
               PyIntDiv(kw[2] + NewIndex(indices, width, i, kw[1])
                                * ElemStride(data_shape, kw[1]),
                        width_out)>>)

\* Whether new_data[w, j] of an array of `rows` rows is out of range.
RowOutOfRange(w, rows) == w >= rows \/ w < -rows

\* The row new_data[w, j] reads: a negative w counts from the end.
RowRead(w, rows) == IF w < 0 THEN w + rows ELSE w

gather_nd_np(data, indices) ==
    LET data_shape    == data.shape
        indices_shape == indices.shape
        K             == indices_shape[Len(indices_shape)]
        N             == Prod(indices_shape) \div K
        left_shape    == PySlice(indices_shape, 0, Len(indices_shape) - 1)
        right_shape   == PySlice(data_shape, K, Len(data_shape))
        out_shape     == left_shape \o right_shape
        R             == Prod(right_shape)
        rows          == Prod(data_shape) \div R
        new_data      == np_reshape(data, <<rows, R>>)
        w(i)          == IndexWrite(data_shape, indices, K, K, R, i, <<0, 0>>)
    IN  IF \E i \in 0..(N - 1) :
              Inbound(data_shape, indices, K, K, i) /\ RowOutOfRange(w(i), rows)
        THEN Raise("IndexError", {})
        ELSE [shape |-> out_shape,
              data  |-> [q \in 1..(N * R) |->
                           LET i == (q - 1) \div R
                               j == (q - 1) % R
                           IN  IF Inbound(data_shape, indices, K, K, i)
                               THEN At(new_data, <<RowRead(w(i), rows), j>>)
                               ELSE 0]]

RECURSIVE ScatterRows(_, _, _, _, _, _, _, _)
\* out after the rows i .. N-1 of the i loop have been added into it, or
\* the IndexError of the first out[w, j] that is out of range.
ScatterRows(out_data, data_shape, indices, width, ncoord, R, updates, i) ==
    IF i * width >= Len(indices.data) THEN [shape |-> data_shape, data |-> out_data]
    ELSE LET w     == IndexWrite(data_shape, indices, width, ncoord, R, i, <<0, 0>>)
             rows  == Len(out_data) \div R
             hit   == Inbound(data_shape, indices, width, ncoord, i)
             added == [q \in 1..Len(out_data) |->
                         IF hit /\ (q - 1) \div R = RowRead(w, rows)
                         THEN updates.data[i * R + ((q - 1) % R) + 1] + out_data[q]
                         ELSE out_data[q]]
         IN  IF hit /\ RowOutOfRange(w, rows) THEN Raise("IndexError", {})
             ELSE ScatterRows(added, data_shape, indices, width, ncoord, R, updates, i + 1)

tensor_scatter_add_np(data, indices, updates) ==
    LET data_shape    == data.shape
        indices_shape == indices.shape
        last          == indices_shape[Len(indices_shape)]
    IN  IF Len(indices_shape) > 1
        THEN ScatterRows(data.data, data_shape, indices, last, last,
                         Prod(PySlice(data_shape, last, Len(data_shape))), updates, 0)
        ELSE \* new_indices has one column, and the k loop still runs over
             \* range(indices_shape[-1]): new_indices[i, 1] is out of range.
             IF last > 1 THEN Raise("IndexError", {})
             ELSE ScatterRows(data.data, data_shape, indices, 1, last,
                              Prod(PySlice(data_shape, 1, Len(data_shape))), updates, 0)

\* The largest extent of a data axis, the largest rank of data, and the
\* largest number of elements of indices.
MaxExtent == 2
MaxDataRank == 3
MaxCoords == 4

DataShapes == UNION {[1..r -> 1..MaxExtent] : r \in 1..MaxDataRank}

\* The shapes (N, K) of indices for data of a shape: N coordinates of K
\* components each, and (N,) for the one-dimensional form.
IndicesShapes(data_shape) ==
    {<<n, k>> : n \in 1..MaxCoords, k \in 1..Len(data_shape)}
    \cup {<<n>> : n \in 1..2}

\* The values component k (0-based) of a coordinate is drawn from: just below
\* the axis, its first and last index, and just past its end.
ComponentValues(data_shape, ncoord, k) ==
    IF k < ncoord THEN {-1, 0, data_shape[k + 1] - 1, data_shape[k + 1]} ELSE {0}

InitIndex ==
    /\ pc = "start"
    /\ out = NoValue
    /\ \E data_shape \in DataShapes :
       \E indices_shape \in IndicesShapes(data_shape) :
          LET width  == IF Len(indices_shape) > 1 THEN indices_shape[2] ELSE 1
              ncoord == IF Len(indices_shape) > 1 THEN indices_shape[2] ELSE 1
              count  == Prod(indices_shape)
              R      == Prod(PySlice(data_shape, ncoord, Len(data_shape)))
          IN  /\ count <= MaxCoords
              /\ \E coords \in [1..count -> (-1)..MaxExtent] :
                    /\ \A p \in 1..count :
                          coords[p] \in ComponentValues(data_shape, width, (p - 1) % width)
                    /\ arg = [data    |-> Iota(data_shape),
                              indices |-> [shape |-> indices_shape, data |-> coords],
                              updates |-> [shape |-> <<count \div width, R>>,
                                           data  |-> [p \in 1..((count \div width) * R)
                                                        |-> 10 * p]]]

\* out = gather_nd_np(data, indices)
GatherNd ==
    /\ pc = "start"
    /\ Len(arg.indices.shape) > 1
    /\ out' = gather_nd_np(arg.data, arg.indices)
    /\ pc' = IF IsRaised(out') THEN "gather_raised" ELSE "gathered"
    /\ UNCHANGED arg

\* out = tensor_scatter_add_np(data, indices, updates); the kernel writes
\* into a deepcopy of data, so data itself stays as it was.
TensorScatterAdd ==
    /\ pc = "start"
    /\ out' = tensor_scatter_add_np(arg.data, arg.indices, arg.updates)
    /\ pc' = IF IsRaised(out') THEN "scatter_raised" ELSE "scattered"
    /\ UNCHANGED arg

\* data[tuple(indices.transpose().tolist())] for indices of one or two
\* dimensions: NumPy's indexing by one integer (or one list of N integers)
\* per leading axis.  A component c of axis k with -shape[k] <= c < 0 counts
\* from the end; one outside [-shape[k], shape[k]), or more components than
\* data has axes, is an IndexError.
index_by_tuple(data, indices) ==
    LET two   == Len(indices.shape) > 1
        K     == IF two THEN indices.shape[2] ELSE indices.shape[1]
        N     == IF two THEN indices.shape[1] ELSE 1
        right == PySlice(data.shape, K, Len(data.shape))
        R     == Prod(right)
        comp(i, k) == indices.data[i * K + k + 1]
        wrapped(i) == [k \in 1..K |->
                          IF comp(i, k - 1) < 0 THEN comp(i, k - 1) + data.shape[k]
                          ELSE comp(i, k - 1)]
    IN  IF K > Len(data.shape) THEN Raise("IndexError", {})
        ELSE IF \E i \in 0..(N - 1), k \in 0..(K - 1) :
                   comp(i, k) >= data.shape[k + 1] \/ comp(i, k) < -data.shape[k + 1]
        THEN Raise("IndexError", {})
        ELSE [shape |-> (IF two THEN <<N>> ELSE <<>>) \o right,
              data  |-> [q \in 1..(N * R) |->
                           data.data[Ravel(wrapped((q - 1) \div R)
                                           \o [k \in 1..(Len(data.shape) - K) |-> 0],
                                           data.shape)
                                     + ((q - 1) % R) + 1]]]

\* op_dsl["GatherNd"]: out = data[tuple(indices.transpose().tolist())]
RegistryGatherNd ==
    /\ pc = "start"
    /\ out' = index_by_tuple(arg.data, arg.indices)
    /\ pc' = IF IsRaised(out') THEN "index_raised" ELSE "indexed"
    /\ UNCHANGED arg

NextIndex == GatherNd \/ TensorScatterAdd \/ RegistryGatherNd

SpecIndex == InitIndex /\ [][NextIndex]_vars

\* The coordinate tuple of row i (0-based) of a two-dimensional indices.
CoordinateOf(indices, i) ==
    [k \in 1..indices.shape[2] |-> indices.data[i * indices.shape[2] + k]]

\* Whether a coordinate tuple is inside the leading axes of a shape.
Inside(shape, t) == \A k \in 1..Len(t) : t[k] >= 0 /\ t[k] < shape[k]

\* data[t[0], ..., t[K-1]] flattened: the slice of data at a coordinate.
SliceAt(data, t) ==
    LET R == Prod(PySlice(data.shape, Len(t), Len(data.shape)))
    IN  [j \in 1..R |->
           data.data[Ravel(t \o [k \in 1..(Len(data.shape) - Len(t)) |-> 0], data.shape)
                     + j]]

\* The slice of the output of a gather that belongs to row i of indices.
OutSlice(o, indices, i) ==
    LET R == Prod(o.shape) \div indices.shape[1]
    IN  [j \in 1..R |-> o.data[i * R + j]]

\* C3: gather_nd_np gives, for every coordinate tuple inside data, the slice
\* data[t[0], ..., t[K-1]] exactly, for every K and every size of the slice.
C3_GatherReproduces ==
    pc \in {"gathered", "gather_raised"}
    => /\ ~IsRaised(out)
       /\ \A i \in 0..(arg.indices.shape[1] - 1) :
             Inside(arg.data.shape, CoordinateOf(arg.indices, i))
             => OutSlice(out, arg.indices, i)
                = SliceAt(arg.data, CoordinateOf(arg.indices, i))

\* C4: gather_nd_np does not fail on a coordinate tuple with a component
\* below 0 or past the end of its data axis; the slice of such a coordinate
\* is all zeros, and the slice of every other coordinate is the one the call
\* returns for that coordinate alone.
C4_GatherSuppressesOutOfBounds ==
    pc \in {"gathered", "gather_raised"}
    => /\ ~IsRaised(out)
       /\ \A i \in 0..(arg.indices.shape[1] - 1) :
             LET t     == CoordinateOf(arg.indices, i)
                 alone == gather_nd_np(arg.data, [shape |-> <<1, Len(t)>>, data |-> t])
             IN  IF Inside(arg.data.shape, t)
                 THEN OutSlice(out, arg.indices, i) = alone.data
                 ELSE \A j \in DOMAIN OutSlice(out, arg.indices, i) :
                         OutSlice(out, arg.indices, i)[j] = 0

\* C4's case: a gather of two coordinates or more, one outside data and one
\* inside it, has returned.
C4_Witness ==
    /\ pc = "gathered"
    /\ \E i, j \in 0..(arg.indices.shape[1] - 1) :
          /\ ~Inside(arg.data.shape, CoordinateOf(arg.indices, i))
          /\ Inside(arg.data.shape, CoordinateOf(arg.indices, j))
          /\ i < j
          /\ \E e \in DOMAIN OutSlice(out, arg.indices, j) :
                OutSlice(out, arg.indices, j)[e] # 0

RECURSIVE SumUpdates(_, _, _, _, _)
\* The sum of updates[i, j] over the rows i .. N-1 of indices whose
\* coordinate is inside data and is the coordinate `row` (as a row of the
\* data flattened to rows of R elements).
SumUpdates(data, indices, updates, q, i) ==
    IF i >= indices.shape[1] THEN 0
    ELSE LET t == CoordinateOf(indices, i)
             R == Prod(PySlice(data.shape, Len(t), Len(data.shape)))
         IN  (IF /\ Inside(data.shape, t)
                 /\ Ravel(t \o [k \in 1..(Len(data.shape) - Len(t)) |-> 0], data.shape)
                    = ((q - 1) \div R) * R
              THEN updates.data[i * R + ((q - 1) % R) + 1]
              ELSE 0)
             + SumUpdates(data, indices, updates, q, i + 1)

\* C5: tensor_scatter_add_np returns data plus, at each coordinate, the sum
\* of all the update slices whose coordinate tuple is that coordinate;
\* updates with a coordinate outside data change nothing.
C5_ScatterAccumulates ==
    (pc \in {"scattered", "scatter_raised"} /\ Len(arg.indices.shape) > 1)
    => out = [shape |-> arg.data.shape,
              data  |-> [q \in 1..Prod(arg.data.shape) |->
                           arg.data.data[q]
                           + SumUpdates(arg.data, arg.indices, arg.updates, q, 0)]]

(***************************************************************************)
(* Strided slice: strided_slice_str and the fragment it emits.             *)
(***************************************************************************)

RECURSIVE BinReversed(_)
\* bin(mask)[-1:1:-1] for mask >= 0: the binary digits of mask, lowest
\* first ("0" for 0).
BinReversed(mask) ==
    IF mask < 2 THEN <<mask>> ELSE <<mask % 2>> \o BinReversed(mask \div 2)

\* i < len(pos) and pos[i] == '1', i 0-based.
MaskBit(pos, i) == i < Len(pos) /\ pos[i + 1] = 1

\* ResolveAxis with the end_mask test dropped: the end is always the
\* largest range.
ResolveAxisEndLargest(a, i) ==
    LET stride  == a.strides[i + 1]
        start_1 == IF MaskBit(BinReversed(a.begin_mask), i)
                   THEN (IF stride >= 0 THEN 0 ELSE -1)
                   ELSE a.begin[i + 1]
        end_1   == IF stride >= 0 THEN a.shape[i + 1] ELSE -a.shape[i + 1] - 1
        wide    == MaskBit(BinReversed(a.ellipsis_mask), i)
                   \/ MaskBit(BinReversed(a.new_axis_mask), i)
        start_3 == IF wide THEN 0 ELSE start_1
        end_3   == IF wide THEN a.shape[i + 1] ELSE end_1
    IN  IF MaskBit(BinReversed(a.shrink_axis_mask), i)
        THEN <<start_3, start_3 + 1, 1>>
        ELSE <<start_3, end_3, stride>>

\* ResolveAxis with the stride of an axis forced to 1 when its begin_mask
\* and end_mask bits are both set.
ResolveAxisUnitWhenMasked(a, i) ==
    LET stride  == a.strides[i + 1]
        start_1 == IF MaskBit(BinReversed(a.begin_mask), i)
                   THEN (IF stride >= 0 THEN 0 ELSE -1)
                   ELSE a.begin[i + 1]
        end_1   == IF MaskBit(BinReversed(a.end_mask), i)
                   THEN (IF stride >= 0 THEN a.shape[i + 1] ELSE -a.shape[i + 1] - 1)
                   ELSE a.end[i + 1]
        wide    == MaskBit(BinReversed(a.ellipsis_mask), i)
                   \/ MaskBit(BinReversed(a.new_axis_mask), i)
        start_3 == IF wide THEN 0 ELSE start_1
        end_3   == IF wide THEN a.shape[i + 1] ELSE end_1
    IN  IF MaskBit(BinReversed(a.shrink_axis_mask), i)
        THEN <<start_3, start_3 + 1, 1>>
        ELSE IF MaskBit(BinReversed(a.begin_mask), i) /\ MaskBit(BinReversed(a.end_mask), i)
        THEN <<start_3, end_3, 1>>
        ELSE <<start_3, end_3, stride>>

\* <<start_num, end_num, strides_num>> of axis i (0-based) after the body
\* of the loop, one definition per test of the body, in its order.
ResolveAxis(a, i) ==
    LET \* begin_mask: use the largest range
        start_1   == IF MaskBit(BinReversed(a.begin_mask), i)
                     THEN (IF a.strides[i + 1] >= 0 THEN 0 ELSE -1)
                     ELSE a.begin[i + 1]
        \* end_mask: use the largest range
        end_1     == IF MaskBit(BinReversed(a.end_mask), i)
                     THEN (IF a.strides[i + 1] >= 0 THEN a.shape[i + 1]
                           ELSE -a.shape[i + 1] - 1)
                     ELSE a.end[i + 1]
        \* ellipsis_mask: do not change on this axis
        ellipsis  == MaskBit(BinReversed(a.ellipsis_mask), i)
        start_2   == IF ellipsis THEN 0 ELSE start_1
        end_2     == IF ellipsis THEN a.shape[i + 1] ELSE end_1
        strides_2 == IF ellipsis THEN 1 ELSE a.strides[i + 1]
        \* new_axis_mask: insert a new axis and ignore slice; the else
        \* branch sets strides_num to strides[i] whatever it was
        new       == MaskBit(BinReversed(a.new_axis_mask), i)
        start_3   == IF new THEN 0 ELSE start_2
        end_3     == IF new THEN a.shape[i + 1] ELSE end_2
        strides_3 == IF new THEN 1 ELSE a.strides[i + 1]
        \* shrink_axis_mask: delete an axis; the else branch sets
        \* strides_num to strides[i] again
        shrink    == MaskBit(BinReversed(a.shrink_axis_mask), i)
        end_4     == IF shrink THEN start_3 + 1 ELSE end_3
        strides_4 == IF shrink THEN 1 ELSE a.strides[i + 1]
    IN  <<start_3, end_4, strides_4>>

\* A loop that would stop at the first marked axis: the lowest of the axes
\* 0 .. n-1 whose bit is set in pos, or -1.
FirstMarked(pos, n) ==
    IF \E k \in 0..(n - 1) : MaskBit(pos, k)
    THEN CHOOSE k \in 0..(n - 1) :
            MaskBit(pos, k) /\ \A j \in 0..(k - 1) : ~MaskBit(pos, j)
    ELSE -1

RECURSIVE LastMarked(_, _)
\* The value the loop leaves in new_axis (or shrink_axis): the last of the
\* axes 0 .. n-1 whose bit is set in pos, or -1.
LastMarked(pos, n) ==
    IF n = 0 THEN -1
    ELSE IF MaskBit(pos, n - 1) THEN n - 1 ELSE LastMarked(pos, n - 1)

\* The fragment strided_slice_str returns, as its statements in order:
\* out = in[start:end:stride, ...], then np.expand_dims and np.squeeze.
strided_slice_str(a) ==
    LET new_axis    == LastMarked(BinReversed(a.new_axis_mask), Len(a.begin))
        shrink_axis == LastMarked(BinReversed(a.shrink_axis_mask), Len(a.begin))
    IN  <<[op     |-> "slice",
           slices |-> [i \in 1..Len(a.begin) |->
                         ResolveAxis(a, i - 1)],
           axis   |-> -1]>>
        \o (IF new_axis # -1
            THEN <<[op |-> "expand_dims", slices |-> <<>>, axis |-> new_axis]>>
            ELSE <<>>)
        \o (IF shrink_axis # -1
            THEN <<[op |-> "squeeze", slices |-> <<>>, axis |-> shrink_axis]>>
            ELSE <<>>)

\* The bounds slice.indices(n) gives start:stop:step, step # 0.
SliceStart(start, step, n) ==
    LET lo == IF step > 0 THEN 0 ELSE -1
        hi == IF step > 0 THEN n ELSE n - 1
        s  == IF start < 0 THEN start + n ELSE start
    IN  IF s < lo THEN lo ELSE IF s > hi THEN hi ELSE s

RECURSIVE SliceRange(_, _, _)
\* list(range(start, stop, step))
SliceRange(start, stop, step) ==
    IF (step > 0 /\ start >= stop) \/ (step < 0 /\ start <= stop) THEN <<>>
    ELSE <<start>> \o SliceRange(start + step, stop, step)

\* The indices of an axis of n elements that x[start:stop:step] selects, in
\* order.
SliceIndices(start, stop, step, n) ==
    SliceRange(SliceStart(start, step, n), SliceStart(stop, step, n), step)

\* The sequence s with x inserted before its 0-based position k.
InsertAt(s, k, x) ==
    [i \in 1..(Len(s) + 1) |-> IF i <= k THEN s[i] ELSE IF i = k + 1 THEN x ELSE s[i - 1]]

\* The sequence s without the element at its 0-based position k.
RemoveAt(s, k) ==
    [i \in 1..(Len(s) - 1) |-> IF i <= k THEN s[i] ELSE s[i + 1]]

\* The array after one statement of a fragment.  An array is given by its
\* axes in order: for each, the input axis it is (from, -1 for an inserted
\* one) and the indices of that axis it holds (sel).
RunStatement(x, st, shape) ==
    IF IsRaised(x) THEN x
    ELSE IF st.op = "slice"
    THEN [axes |-> [i \in 1..Len(shape) |->
                      [from |-> i - 1,
                       sel  |-> IF i <= Len(st.slices)
                                THEN SliceIndices(st.slices[i][1], st.slices[i][2],
                                                  st.slices[i][3], shape[i])
                                ELSE [j \in 1..shape[i] |-> j - 1]]]]
    ELSE IF st.op = "expand_dims"
    THEN IF st.axis > Len(x.axes) THEN Raise("AxisError", {})
         ELSE [axes |-> InsertAt(x.axes, st.axis, [from |-> -1, sel |-> <<0>>])]
    ELSE \* np.squeeze(x, axis): the axis must exist and have length 1.
         IF st.axis >= Len(x.axes) THEN Raise("AxisError", {})
         ELSE IF Len(x.axes[st.axis + 1].sel) # 1 THEN Raise("ValueError", {})
         ELSE [axes |-> RemoveAt(x.axes, st.axis)]

RECURSIVE RunFragment(_, _, _, _)
\* The array the statements k .. of a fragment leave in the output name.
RunFragment(x, res, shape, k) ==
    IF k > Len(res) THEN x
    ELSE RunFragment(RunStatement(x, res[k], shape), res, shape, k + 1)

\* The largest extent of an axis of the sliced tensor, the largest number
\* of mask bits set in a node, and the ranks drawn (every axis is declared).
MaxSliceExtent == 2
MaxMaskBits == 2
SliceRanks == {1, 2}

MaskNames == {"begin_mask", "end_mask", "ellipsis_mask", "new_axis_mask", "shrink_axis_mask"}

RECURSIVE Pow2(_)
Pow2(n) == IF n = 0 THEN 1 ELSE 2 * Pow2(n - 1)

\* The mask that has the bits of the axes in S set.
MaskOf(S) ==
    LET RECURSIVE Sum(_)
        Sum(T) == IF T = {} THEN 0
                  ELSE LET x == CHOOSE x \in T : TRUE IN Pow2(x) + Sum(T \ {x})
    IN  Sum(S)

InitSlice ==
    /\ pc = "start"
    /\ out = <<>>
    /\ \E rank \in SliceRanks :
       \E shape \in [1..rank -> 1..MaxSliceExtent] :
       \E bits \in SUBSET (MaskNames \X (0..(rank - 1))) :
          /\ Cardinality(bits) <= MaxMaskBits
          /\ \E begin \in [1..rank -> (-MaxSliceExtent)..(MaxSliceExtent - 1)],
                end \in [1..rank -> 0..MaxSliceExtent],
                strides \in [1..rank -> {-1, 1, 2}] :
                /\ \A i \in 1..rank : /\ begin[i] >= -shape[i] /\ begin[i] < shape[i]
                                      /\ end[i] \in {0, shape[i]}
                /\ arg = [shape   |-> shape,
                          begin   |-> begin,
                          end     |-> end,
                          strides |-> strides,
                          begin_mask       |-> MaskOf({i \in 0..(rank - 1) : <<"begin_mask", i>> \in bits}),
                          end_mask         |-> MaskOf({i \in 0..(rank - 1) : <<"end_mask", i>> \in bits}),
                          ellipsis_mask    |-> MaskOf({i \in 0..(rank - 1) : <<"ellipsis_mask", i>> \in bits}),
                          new_axis_mask    |-> MaskOf({i \in 0..(rank - 1) : <<"new_axis_mask", i>> \in bits}),
                          shrink_axis_mask |-> MaskOf({i \in 0..(rank - 1) : <<"shrink_axis_mask", i>> \in bits})]

\* res = strided_slice_str(inputs, output, attr)
StridedSlice ==
    /\ pc = "start"
    /\ out' = [res |-> strided_slice_str(arg)]
    /\ pc' = "emitted"
    /\ UNCHANGED arg

\* The harness runs the fragment on the input tensor.
RunSlice ==
    /\ pc = "emitted"
    /\ out' = [res |-> out.res,
               val |-> RunFragment([axes |-> <<>>], out.res, arg.shape, 1)]
    /\ pc' = IF IsRaised(out'.val) THEN "run_raised" ELSE "run"
    /\ UNCHANGED arg

NextSlice == StridedSlice \/ RunSlice

SpecSlice == InitSlice /\ [][NextSlice]_vars

\* The tensor after the slicing statement of the emitted fragment alone.
Sliced == RunStatement([axes |-> <<>>], out.res[1], arg.shape)

NoMasks ==
    /\ arg.begin_mask = 0 /\ arg.end_mask = 0 /\ arg.ellipsis_mask = 0
    /\ arg.new_axis_mask = 0 /\ arg.shrink_axis_mask = 0

\* C6: with all five masks zero, strided_slice_str emits for every declared
\* axis i exactly begin[i]:end[i]:strides[i] and neither an axis insertion
\* nor an axis removal, so the result is the basic slicing of the input.
C6_NoMasksIsBasicSlicing ==
    (NoMasks /\ pc # "start")
    => /\ out.res = <<[op     |-> "slice",
                       slices |-> [i \in 1..Len(arg.begin) |->
                                     <<arg.begin[i], arg.end[i], arg.strides[i]>>],
                       axis   |-> -1]>>
       /\ pc # "run_raised"
       /\ pc = "run"
          => out.val = [axes |-> [i \in 1..Len(arg.shape) |->
                                    [from |-> i - 1,
                                     sel  |-> SliceIndices(arg.begin[i], arg.end[i],
                                                           arg.strides[i], arg.shape[i])]]]

\* C6's case: a fragment was emitted and run for a node without masks whose
\* slice of some axis is not the whole axis.
C6_Witness ==
    /\ NoMasks /\ pc = "run"
    /\ \E i \in 1..Len(arg.shape) : Len(out.val.axes[i].sel) < arg.shape[i]

\* Axis i (1-based) has its begin_mask and end_mask bits set and a positive
\* stride.
MaskedAxis(i) ==
    /\ MaskBit(BinReversed(arg.begin_mask), i - 1)
    /\ MaskBit(BinReversed(arg.end_mask), i - 1)
    /\ arg.strides[i] > 0

\* C7, as claimed: an axis with its begin-mask and end-mask bits set and a
\* positive stride, whatever its value, is passed through unchanged: the
\* sliced axis has the full length shape[i] and the input's elements in
\* their order.
C7_MaskedAxisUnchanged ==
    pc # "start"
    => \A i \in 1..Len(arg.shape) :
          MaskedAxis(i)
          => Sliced.axes[i].sel = [j \in 1..arg.shape[i] |-> j - 1]

\* C7, amended: for an axis with its begin-mask and end-mask bits set, its
\* shrink-axis bit clear and a positive stride, the emitted slice is
\* 0:shape[i]:strides[i]; the sliced axis holds the input's elements at
\* 0, strides[i], 2*strides[i], ... in order, which is the whole axis
\* unchanged when strides[i] = 1 (or the axis has one element at most) and
\* a part of it otherwise.
C7_MaskedAxisFullRange ==
    pc # "start"
    => \A i \in 1..Len(arg.shape) :
          (MaskedAxis(i) /\ ~MaskBit(BinReversed(arg.shrink_axis_mask), i - 1))
          => /\ out.res[1].slices[i] = <<0, arg.shape[i], arg.strides[i]>>
             /\ Sliced.axes[i].sel
                = [j \in 1..((arg.shape[i] + arg.strides[i] - 1) \div arg.strides[i])
                     |-> (j - 1) * arg.strides[i]]
             /\ (Sliced.axes[i].sel = [j \in 1..arg.shape[i] |-> j - 1])
                <=> (arg.strides[i] = 1 \/ arg.shape[i] <= 1)

\* C7's case: a fragment was emitted for a node with an axis of more than
\* one element that has both bits set and a stride above 1.
C7_Witness ==
    /\ pc = "emitted"
    /\ \E i \in 1..Len(arg.shape) :
          /\ MaskedAxis(i) /\ ~MaskBit(BinReversed(arg.shrink_axis_mask), i - 1)
          /\ arg.strides[i] > 1 /\ arg.shape[i] > 1

(***************************************************************************)
(* Matmul composer: get_attr, get_trans_data_str, np_matmul_str,           *)
(* convert_fracal_shape, func_pack and matmul_str.                         *)
(*                                                                         *)
(* A Python value whose type the code tests is a record [t, v]: its type   *)
(* ("str", "bool", "int", "list", "none") and its value.  A fragment is    *)
(* the sequence of its statements, each [op, target, a, b, p]: the name    *)
(* assigned, the names read and a parameter (a type, a shape, a format).   *)
(***************************************************************************)

PyStr(x) == [t |-> "str", v |-> x]
PyBool(x) == [t |-> "bool", v |-> x]
PyList(x) == [t |-> "list", v |-> x]
PyNone == [t |-> "none", v |-> <<>>]

\* bool(x) of Python.
Truthy(x) ==
    CASE x.t = "str" -> x.v # ""
      [] x.t = "bool" -> x.v
      [] x.t = "int" -> x.v # 0
      [] x.t = "list" -> x.v # <<>>
      [] OTHER -> FALSE

\* x == 'text' of Python for a string literal.
IsStr(x, text) == x.t = "str" /\ x.v = text

RECURSIVE get_attr(_, _)
\* The value of the first entry of attr_desc named attr_type, or [] (after
\* a logged warning) when there is none.
get_attr(attr_desc, attr_type) ==
    IF attr_desc = <<>> THEN PyList(<<>>)
    ELSE IF Head(attr_desc).name = attr_type THEN Head(attr_desc).value
    ELSE get_attr(Tail(attr_desc), attr_type)

\* desc.get('value') if it is not None, else desc['tensor_name']; the value
\* is carried as the text the format operator writes for it.
get_input(desc) == IF desc.value.t # "none" THEN desc.value.v ELSE desc.tensor_name

Stmt(op, target, a, b, p) == [op |-> op, target |-> target, a |-> a, b |-> b, p |-> p]

\* The statement get_trans_data_str returns (the source of the converter
\* and a call of it) as [stmts], or its ValueError naming both formats.
get_trans_data_str(input_name, output_name, ori_shape, src_format, dst_format) ==
    IF ~(\/ (IsStr(src_format, "DefaultFormat") /\ IsStr(dst_format, "FRACTAL_NZ"))
         \/ (IsStr(src_format, "NCHW") /\ IsStr(dst_format, "FRACTAL_NZ"))
         \/ (IsStr(src_format, "FRACTAL_NZ") /\ IsStr(dst_format, "DefaultFormat"))
         \/ (IsStr(src_format, "FRACTAL_NZ") /\ IsStr(dst_format, "NCHW")))
    THEN Raise("ValueError", {src_format.v, dst_format.v})
    ELSE IF (IsStr(src_format, "DefaultFormat") \/ IsStr(src_format, "NCHW"))
            /\ IsStr(dst_format, "FRACTAL_NZ")
    THEN [stmts |-> <<Stmt("trans_data_two2fractal", output_name, input_name, "",
                           <<src_format.v, dst_format.v>>)>>]
    ELSE IF IsStr(src_format, "FRACTAL_NZ")
            /\ (IsStr(dst_format, "DefaultFormat") \/ IsStr(dst_format, "NCHW"))
    THEN [stmts |-> <<Stmt("trans_data_fractal2two", output_name, input_name, "",
                           ori_shape)>>]
    ELSE Raise("ValueError", {src_format.v, dst_format.v})

\* get_trans_data_str(input, output, input_.shape, src_format, dst_format):
\* the request for a conversion fragment.
GetTransDataStr ==
    /\ pc = "start"
    /\ out' = get_trans_data_str("input", "output", arg.input_.shape,
                                 PyStr(arg.src_format), PyStr(arg.dst_format))
    /\ pc' = IF IsRaised(out') THEN "str_raised" ELSE "str_emitted"
    /\ UNCHANGED arg

NextLayout == Two2Fractal \/ Fractal2Two \/ GetTransDataStr

SpecLayout == InitLayout /\ [][NextLayout]_vars

\* The pairs (source format, destination format) a conversion exists for.
SupportedPairs ==
    {<<"DefaultFormat", "FRACTAL_NZ">>, <<"NCHW", "FRACTAL_NZ">>,
     <<"FRACTAL_NZ", "DefaultFormat">>, <<"FRACTAL_NZ", "NCHW">>}

\* C15: a conversion request for a pair of formats outside the supported
\* four fails with an explicit error that names both formats and gives no
\* fragment and no array, from get_trans_data_str and from a direct call of
\* trans_data_two2fractal alike.
C15_UnsupportedPairFails ==
    (<<arg.src_format, arg.dst_format>> \notin SupportedPairs /\ pc # "start") =>
        /\ pc \in {"raised", "str_raised"}
        /\ IsRaised(out)
        /\ out.raised = "ValueError"
        /\ out.mentions = {arg.src_format, arg.dst_format}

\* np_matmul_str with the two astype statements of the operands left out.
np_matmul_str_uncast(inputs, output, attr) ==
    <<Stmt("matmul", output[1].tensor_name, get_input(inputs[1][1]),
           get_input(inputs[2][1]),
           <<Truthy(get_attr(attr, "transpose_a")), Truthy(get_attr(attr, "transpose_b"))>>)>>
    \o (IF output[1].data_type = "float16"
        THEN <<Stmt("astype", output[1].tensor_name, output[1].tensor_name, "", "float16")>>
        ELSE <<>>)

\* The statements np_matmul_str returns: the operands declared float16 cast
\* to float32 under their own names, the product (np.swapaxes on the
\* operands the transpose flags name), and the cast of the product.
np_matmul_str(inputs, output, attr) ==
    LET trans_a == get_attr(attr, "transpose_a")
        trans_b == get_attr(attr, "transpose_b")
        input_0 == inputs[1][1]
        input_1 == inputs[2][1]
    IN  (IF input_0.data_type = "float16"
         THEN <<Stmt("astype", get_input(input_0), get_input(input_0), "", "float32")>>
         ELSE <<>>)
        \o (IF input_1.data_type = "float16"
            THEN <<Stmt("astype", get_input(input_1), get_input(input_1), "", "float32")>>
            ELSE <<>>)
        \o <<Stmt("matmul", output[1].tensor_name, get_input(inputs[1][1]),
                  get_input(inputs[2][1]), <<Truthy(trans_a), Truthy(trans_b)>>)>>
        \o (IF output[1].data_type = "float16"
            THEN <<Stmt("astype", output[1].tensor_name, output[1].tensor_name, "",
                        "float16")>>
            ELSE <<>>)

\* The dense shape of a fractal shape, or None for a fractal argument that
\* is neither "zN" nor "zZ".
convert_fracal_shape(ori_shape, fractal) ==
    LET n == Len(ori_shape)
    IN  IF IsStr(fractal, "zN")
        THEN PyList(PySlice(ori_shape, 0, n - 4)
                    \o <<ori_shape[n - 1] * ori_shape[n - 2], ori_shape[n] * ori_shape[n - 3]>>)
        ELSE IF IsStr(fractal, "zZ")
        THEN PyList(PySlice(ori_shape, 0, n - 4)
                    \o <<ori_shape[n - 3] * ori_shape[n - 1], ori_shape[n - 2] * ori_shape[n]>>)
        ELSE PyNone

\* func_pack and the call appended to it: a function of the operand names
\* with the statements as its body, returning the output name, and the
\* assignment of its result to the output name.
func_pack(func_name, func_body, params, ret) ==
    [func_name |-> func_name, body |-> func_body, params |-> params, ret |-> ret]

matmul_str(inputs, output, attr) ==
    LET left_format_0  == get_attr(attr, "left_format")
        left_format    == IF ~Truthy(left_format_0) THEN get_attr(attr, "pri_format")
                          ELSE left_format_0
        right_format_0 == get_attr(attr, "right_format")
        right_format   == IF ~Truthy(right_format_0) THEN get_attr(attr, "pri_format")
                          ELSE right_format_0
        trans_b        == get_attr(attr, "transpose_b")
        left_input     == inputs[1][1]
        right_input    == inputs[2][1]
        output_name    == output[1].tensor_name
        output_format  == PyStr(output[1].format)
        output_shape   == output[1].shape
        right_ori_0    == convert_fracal_shape(right_input.shape, right_format)
        left_input_name  == get_input(left_input)
        right_input_name == get_input(right_input)
        left_trans_str ==
            IF IsStr(left_format, "FRACTAL_NZ")
            THEN get_trans_data_str(left_input_name, left_input_name,
                     convert_fracal_shape(left_input.shape, PyStr("zN")).v,
                     left_format, PyStr("DefaultFormat")).stmts
            ELSE <<>>
        right_ori_shape ==
            IF IsStr(right_format, "FRACTAL_NZ")
            THEN convert_fracal_shape(right_input.shape, PyStr("zN"))
            ELSE right_ori_0
        right_trans_str ==
            IF IsStr(right_format, "FRACTAL_NZ")
            THEN get_trans_data_str(right_input_name, right_input_name,
                     right_ori_shape.v, right_format, PyStr("DefaultFormat")).stmts
            ELSE <<>>
        mm_str   == np_matmul_str(inputs, output, attr)
        has_bias == Len(inputs) > 2
        bias     == inputs[3][1]
        bias_shape ==
            IF Truthy(trans_b) THEN right_ori_shape.v[Len(right_ori_shape.v) - 1]
            ELSE right_ori_shape.v[Len(right_ori_shape.v)]
        bias_str ==
            IF ~has_bias THEN <<>>
            ELSE (IF bias.shape[1] # bias_shape
                  THEN <<Stmt("random_gaussian", get_input(bias), "", "",
                              <<bias_shape, bias.data_type>>)>>
                  ELSE <<>>)
                 \o <<Stmt("add", output_name, output_name, get_input(bias), "")>>
        output_trans_str ==
            IF output_format.v # "DefaultFormat"
            THEN get_trans_data_str(output_name, output_name, output_shape,
                                    PyStr("DefaultFormat"), output_format)
            ELSE [stmts |-> <<>>]
        params == [i \in 1..Len(inputs) |-> get_input(inputs[i][1])]
    IN  IF has_bias /\ right_ori_shape.t = "none"
        THEN \* right_ori_shape[-1] of None
             Raise("TypeError", {})
        ELSE IF IsRaised(output_trans_str) THEN output_trans_str
        ELSE func_pack("matmul_func",
                       left_trans_str \o right_trans_str \o mm_str \o bias_str
                       \o output_trans_str.stmts,
                       params, output_name)

(***************************************************************************)
(* Running the matmul fragment.  Only the element types are followed: the  *)
(* environment binds each name to the type of the array it holds, and the  *)
(* run records the operand types every np.matmul was applied to.           *)
(***************************************************************************)

\* NumPy's result type of a binary operation on float16 / float32 arrays.
Promote(t1, t2) == IF t1 = "float16" /\ t2 = "float16" THEN "float16" ELSE "float32"

\* One statement of the fragment on a run state [env, products].
RunMatmulStatement(r, st) ==
    CASE st.op = "astype" ->
             [r EXCEPT !.env[st.target] = st.p]
      [] st.op = "matmul" ->
             [r EXCEPT !.env[st.target] = Promote(r.env[st.a], r.env[st.b]),
                       !.products = Append(@, <<r.env[st.a], r.env[st.b]>>)]
      [] st.op = "random_gaussian" ->
             [r EXCEPT !.env[st.target] = st.p[2]]
      [] st.op = "add" ->
             [r EXCEPT !.env[st.target] = Promote(r.env[st.a], r.env[st.b])]
      [] OTHER -> \* the layout converters keep the element type
             [r EXCEPT !.env[st.target] = r.env[st.a]]

RECURSIVE RunMatmulBody(_, _)
RunMatmulBody(r, body) ==
    IF body = <<>> THEN r
    ELSE RunMatmulBody(RunMatmulStatement(r, Head(body)), Tail(body))

\* exec of the fragment: matmul_func is called on the arrays the operand
\* names hold, and its result is bound to the output name.
RunMatmulFragment(frag, inputs, output) ==
    LET names == {get_input(inputs[i][1]) : i \in 1..Len(inputs)}
                 \cup {output[1].tensor_name}
        declared(n) ==
            IF \E i \in 1..Len(inputs) : get_input(inputs[i][1]) = n
            THEN inputs[CHOOSE i \in 1..Len(inputs) : get_input(inputs[i][1]) = n][1].data_type
            ELSE "unbound"
        r == RunMatmulBody([env |-> [n \in names |-> declared(n)], products |-> <<>>],
                           frag.body)
    IN  [result |-> r.env[frag.ret], products |-> r.products]

DataTypes == {"float16", "float32"}
OperandFormats == {"missing", "DefaultFormat", "FRACTAL_NZ"}
OutputFormats == {"DefaultFormat", "FRACTAL_NZ", "NCHW"}
Flags == {"missing", "True", "False"}

\* The attribute list of a node: the entries that are present, in order.
AttrOf(lf, rf, pf, ta, tb) ==
    (IF lf = "missing" THEN <<>> ELSE <<[name |-> "left_format", value |-> PyStr(lf)]>>)
    \o (IF rf = "missing" THEN <<>> ELSE <<[name |-> "right_format", value |-> PyStr(rf)]>>)
    \o (IF pf = "missing" THEN <<>> ELSE <<[name |-> "pri_format", value |-> PyStr(pf)]>>)
    \o (IF ta = "missing" THEN <<>>
        ELSE <<[name |-> "transpose_a", value |-> PyBool(ta = "True")]>>)
    \o (IF tb = "missing" THEN <<>>
        ELSE <<[name |-> "transpose_b", value |-> PyBool(tb = "True")]>>)

\* A tensor description of the node.
Desc(name, dtype, shape, format) ==
    [tensor_name |-> name, data_type |-> dtype, shape |-> shape, format |-> format,
     value |-> PyNone]

\* The format the node gives an operand, and the shape of a 32 x 16
\* operand in it.
OperandFormat(f, pf) ==
    IF f = "FRACTAL_NZ" \/ (f = "missing" /\ pf = "FRACTAL_NZ")
    THEN "FRACTAL_NZ" ELSE "DefaultFormat"

OperandShape(f, pf) ==
    IF OperandFormat(f, pf) = "FRACTAL_NZ" THEN <<1, 2, 16, 16>> ELSE <<32, 16>>

InitMatmul ==
    /\ pc = "start"
    /\ out = NoValue
    /\ \E lf \in OperandFormats, rf \in OperandFormats, pf \in OperandFormats,
          ta \in Flags, tb \in Flags, of \in OutputFormats,
          dl \in DataTypes, dr \in DataTypes, do \in DataTypes,
          bias \in {<<>>} \cup {<<n, d>> : n \in {16, 32}, d \in DataTypes} :
          arg = [inputs |-> <<<<Desc("left", dl, OperandShape(lf, pf), OperandFormat(lf, pf))>>,
                              <<Desc("right", dr, OperandShape(rf, pf), OperandFormat(rf, pf))>>>>
                             \o (IF bias = <<>> THEN <<>>
                                 ELSE <<<<Desc("bias", bias[2], <<bias[1]>>, "DefaultFormat")>>>>),
                 output |-> <<Desc("out", do, <<16, 16>>, of)>>,
                 attr |-> AttrOf(lf, rf, pf, ta, tb)]

\* op_dsl["MatMul"] / op_dsl["BatchMatMul"]: emit the fragment.
MatMul ==
    /\ pc = "start"
    /\ LET res == matmul_str(arg.inputs, arg.output, arg.attr)
       IN  /\ out' = [res |-> res]
           /\ pc' = IF IsRaised(res) THEN "matmul_raised" ELSE "matmul_emitted"
    /\ UNCHANGED arg

\* The harness executes the emitted fragment.
RunMatmul ==
    /\ pc = "matmul_emitted"
    /\ out' = [res |-> out.res,
               val |-> RunMatmulFragment(out.res, arg.inputs, arg.output)]
    /\ pc' = "matmul_run"
    /\ UNCHANGED arg

NextMatmul == MatMul \/ RunMatmul

SpecMatmul == InitMatmul /\ [][NextMatmul]_vars

\* Position of the np.matmul statement in a function body.
ProductAt(body) == CHOOSE k \in 1..Len(body) : body[k].op = "matmul"

\* Statement j of the body casts name n to type t under its own name.
CastsAt(body, j, n, t) ==
    body[j].op = "astype" /\ body[j].target = n /\ body[j].a = n /\ body[j].p = t

\* C8: in the fragment generated for MatMul / BatchMatMul every operand
\* declared float16 is cast to float32 before the product, the product is
\* computed on float32 arrays and never on a float16 one, and the product is
\* cast to float16 afterwards exactly when the output is declared float16.
C8_Float32Accumulation ==
    pc = "matmul_run" =>
        LET body == out.res.body
            k    == ProductAt(body)
            outn == arg.output[1].tensor_name
        IN  /\ \A i \in 1..2 :
                   arg.inputs[i][1].data_type = "float16" =>
                       \E j \in 1..(k - 1) :
                           CastsAt(body, j, get_input(arg.inputs[i][1]), "float32")
            /\ out.val.products = <<<<"float32", "float32">>>>
            /\ (\E j \in (k + 1)..Len(body) : CastsAt(body, j, outn, "float16"))
                   <=> arg.output[1].data_type = "float16"

\* C8 witness: a float16 operand and a float16 output have been run.
C8_Witness ==
    /\ pc = "matmul_run"
    /\ arg.inputs[1][1].data_type = "float16"
    /\ arg.inputs[2][1].data_type = "float32"
    /\ arg.output[1].data_type = "float16"
    /\ Len(out.res.body) > 3

(***************************************************************************)
(* one_hot_np                                                              *)
(***************************************************************************)

\* list.insert(k, x) of Python: a negative k counts from the end, and k is
\* clamped to the list.
list_insert(s, k, x) ==
    LET k1 == IF k < 0 THEN k + Len(s) ELSE k
        k2 == IF k1 < 0 THEN 0 ELSE IF k1 > Len(s) THEN Len(s) ELSE k1
    IN  [i \in 1..(Len(s) + 1) |->
            IF i <= k2 THEN s[i] ELSE IF i = k2 + 1 THEN x ELSE s[i - 1]]

\* np.full(shape, fill_value)
np_full(shape, fill_value) ==
    [shape |-> shape, data |-> [p \in 1..Prod(shape) |-> fill_value]]

RECURSIVE OneHotAssign(_, _, _, _, _)
\* The loop over indexs from position t (0-based) on: expect[loc] =
\* on_value wherever loc[axis] >= 0; an index tuple outside expect is
\* NumPy's IndexError.
OneHotAssign(expect, indexs, axis, on_value, t) ==
    IF t >= Len(indexs) THEN expect
    ELSE LET loc == indexs[t + 1]
         IN  IF loc[axis + 1] >= 0
             THEN IF \E k \in 1..Len(loc) : loc[k] >= expect.shape[k]
                  THEN Raise("IndexError", {})
                  ELSE OneHotAssign(
                           [expect EXCEPT !.data[Ravel(loc, expect.shape) + 1] = on_value],
                           indexs, axis, on_value, t + 1)
             ELSE OneHotAssign(expect, indexs, axis, on_value, t + 1)

\* one_hot_np on integer values; astype(dtype) keeps them.
one_hot_np(data, axis, on_value, off_value, depth) ==
    LET shape     == data.shape
        axis_1    == IF axis < 0 THEN axis + Len(shape) + 1 ELSE axis
        out_shape == list_insert(shape, axis_1, depth)
        expect    == np_full(out_shape, off_value)
        \* itertools.product of the ranges, in row-major order, each with
        \* the value of flatinput at its position inserted at axis
        indexs    == [p \in 1..Prod(shape) |->
                         list_insert(Unravel(p - 1, shape), axis_1, data.data[p])]
    IN  OneHotAssign(expect, indexs, axis_1, on_value, 0)

MaxHotElems == 4
MaxDepth == 2

HotShapes ==
    {sh \in UNION {[1..r -> 1..MaxHotElems] : r \in 1..2} : Prod(sh) <= MaxHotElems}

InitOneHot ==
    /\ pc = "start"
    /\ out = NoValue
    /\ \E sh \in HotShapes, depth \in 1..MaxDepth, v \in {<<1, 0>>, <<7, 9>>} :
       \E d \in [1..Prod(sh) -> -1..depth], axis \in (-(Len(sh) + 1))..Len(sh) :
          arg = [data |-> [shape |-> sh, data |-> d], axis |-> axis,
                 on_value |-> v[1], off_value |-> v[2], depth |-> depth]

\* op_dsl["OneHot"]: out = one_hot_np(data, axis, on_value, off_value, depth, dtype)
OneHot ==
    /\ pc = "start"
    /\ LET res == one_hot_np(arg.data, arg.axis, arg.on_value, arg.off_value, arg.depth)
       IN  /\ out' = res
           /\ pc' = IF IsRaised(res) THEN "onehot_raised" ELSE "onehot_done"
    /\ UNCHANGED arg

NextOneHot == OneHot

SpecOneHot == InitOneHot /\ [][NextOneHot]_vars

\* The 0-based position of the inserted axis.
HotAxis == IF arg.axis < 0 THEN arg.axis + Len(arg.data.shape) + 1 ELSE arg.axis

\* The row of source element p is as the one-hot encoding asks: all
\* off_value for a negative index, else on_value at the index only.
HotRowCorrect(p) ==
    \A j \in 0..(arg.depth - 1) :
        LET loc == [i \in 1..(Len(arg.data.shape) + 1) |->
                       IF i <= HotAxis THEN Unravel(p - 1, arg.data.shape)[i]
                       ELSE IF i = HotAxis + 1 THEN j
                       ELSE Unravel(p - 1, arg.data.shape)[i - 1]]
        IN  At(out, loc) = IF arg.data.data[p] >= 0 /\ j = arg.data.data[p]
                           THEN arg.on_value ELSE arg.off_value

\* C9: one_hot_np never fails, a negative source index gives a row of
\* off_value only, and every other source index v gives on_value at
\* position v of the inserted axis and off_value elsewhere.
C9_OneHotRows ==
    pc \in {"onehot_done", "onehot_raised"} =>
        /\ ~IsRaised(out)
        /\ out.shape = [i \in 1..(Len(arg.data.shape) + 1) |->
                           IF i <= HotAxis THEN arg.data.shape[i]
                           ELSE IF i = HotAxis + 1 THEN arg.depth
                           ELSE arg.data.shape[i - 1]]
        /\ \A p \in 1..Prod(arg.data.shape) : HotRowCorrect(p)

(***************************************************************************)
(* csr_reduce_sum_np                                                       *)
(***************************************************************************)

RECURSIVE SumOver(_, _)
\* The sum of f[k] over the finite set of positions S.
SumOver(f, S) ==
    IF S = {} THEN 0
    ELSE LET k == CHOOSE k \in S : TRUE IN f[k] + SumOver(f, S \ {k})

\* np.array(csr_matrix((values, indices, indptr), shape).sum(axis)): the
\* sum over the rows is a 1 x cols matrix that collects each stored value in
\* its column, the sum over the columns a rows x 1 matrix of the sums of
\* the stored values of each row.
csr_sum(values, indices, indptr, shape, axis) ==
    IF axis = 0
    THEN [shape |-> <<1, shape[2]>>,
          data  |-> [c \in 1..shape[2] |->
                        SumOver(values, {k \in 1..Len(values) : indices[k] = c - 1})]]
    ELSE [shape |-> <<shape[1], 1>>,
          data  |-> [r \in 1..shape[1] |->
                        SumOver(values, (indptr[r] + 1)..indptr[r + 1])]]

\* np.moveaxis(a, -1, 0)
np_moveaxis_last_first(a) ==
    LET r == Len(a.shape)
    IN  np_transpose(a, [i \in 1..r |-> IF i = 1 THEN r - 1 ELSE i - 2])

csr_reduce_sum_np(indptr, indices, data, shape, axis) ==
    LET axis_1  == axis % Len(shape)
        nnz     == data.shape[1]
        feat    == Prod(PySlice(data.shape, 1, Len(data.shape)))
        \* x[..., i] of x = data.reshape(data.shape[0], -1)
        column(i) == [k \in 1..nnz |-> data.data[(k - 1) * feat + i + 1]]
        outs    == [i \in 1..feat |->
                       csr_sum(column(i - 1), indices, indptr, PySlice(shape, 0, 2), axis_1)]
        per     == Prod(outs[1].shape)
        \* np.stack(expect, 0)
        stacked == [shape |-> <<feat>> \o outs[1].shape,
                    data  |-> [q \in 1..(feat * per) |->
                                  outs[((q - 1) \div per) + 1].data[((q - 1) % per) + 1]]]
        folded  == np_reshape(stacked,
                              PySlice(shape, 2, Len(shape)) \o <<shape[(1 - axis_1) + 1]>>)
    IN  IF nnz = 0
        THEN \* data.reshape(0, -1): the -1 of an empty array cannot be inferred
             Raise("ValueError", {})
        ELSE IF IsRaised(folded) THEN folded
        ELSE np_reshape(np_moveaxis_last_first(folded),
                        <<shape[1], 1>> \o PySlice(shape, 2, Len(shape)))

MaxDim == 2
MaxNnz == 2
MaxValue == 2

\* The CSR triples of a rows x cols matrix: indptr runs from 0 to the number
\* of stored values without decreasing, and every column index is a column.
CsrTriples(rows, cols) ==
    {t \in UNION {[indptr : [1..(rows + 1) -> 0..n], indices : [1..n -> 0..(cols - 1)],
                   data : [1..n -> 1..MaxValue]] : n \in 0..MaxNnz} :
        /\ t.indptr[1] = 0
        /\ t.indptr[rows + 1] = Len(t.data)
        /\ \A r \in 1..rows : t.indptr[r] <= t.indptr[r + 1]}

InitCsr ==
    /\ pc = "start"
    /\ out = NoValue
    /\ \E rows \in 1..MaxDim, cols \in 1..MaxDim, axis \in {0, 1, -1, -2} :
       \E t \in CsrTriples(rows, cols) :
          arg = [indptr |-> t.indptr, indices |-> t.indices,
                 data |-> [shape |-> <<Len(t.data)>>, data |-> t.data],
                 shape |-> <<rows, cols>>, axis |-> axis]

\* op_dsl["CSRReduceSum"]: out = csr_reduce_sum_np(indptr, indices, data,
\* dense_shape, axis)
CSRReduceSum ==
    /\ pc = "start"
    /\ LET res == csr_reduce_sum_np(arg.indptr, arg.indices, arg.data, arg.shape, arg.axis)
       IN  /\ out' = res
           /\ pc' = IF IsRaised(res) THEN "csr_raised" ELSE "csr_done"
    /\ UNCHANGED arg

NextCsr == CSRReduceSum

SpecCsr == InitCsr /\ [][NextCsr]_vars

\* toarray(csr)[r][c], r and c 0-based: the stored values of row r whose
\* column index is c, added up.
ToArray(r, c) ==
    SumOver(arg.data.data,
            {k \in (arg.indptr[r + 1] + 1)..arg.indptr[r + 2] : arg.indices[k] = c})

\* toarray(csr).sum(axis), as the sequence of its values.
DenseSum ==
    LET rows == arg.shape[1]
        cols == arg.shape[2]
    IN  IF arg.axis \in {0, -2}
        THEN [c \in 1..cols |-> SumOver([r \in 1..rows |-> ToArray(r - 1, c - 1)], 1..rows)]
        ELSE [r \in 1..rows |-> SumOver([c \in 1..cols |-> ToArray(r - 1, c - 1)], 1..cols)]

\* C10: csr_reduce_sum_np succeeds for every valid CSR triple of a rows x
\* cols matrix, square or not, and every axis in {0, 1, -1, -2}, and its
\* values are those of toarray(csr).sum(axis).
C10_CsrReduceSumIsDenseSum ==
    pc \in {"csr_done", "csr_raised"} =>
        /\ ~IsRaised(out)
        /\ out.data = DenseSum

(***************************************************************************)
(* The registry op_dsl and the fragments of its entries.                   *)
(*                                                                         *)
(* Here a fragment is the sequence of its top-level statements, each       *)
(* [targets, op, reads, p]: the names it binds in the namespace it is      *)
(* executed in (none for an item assignment or an in-place call), what it  *)
(* computes, the names it reads, and the parameters written into it.       *)
(***************************************************************************)

NameStmt(targets, op, reads, p) == [targets |-> targets, op |-> op, reads |-> reads, p |-> p]

\* One key of the dict literal: the composer its lambda calls ("expr" for a
\* format string filled in place, with that string as fn), and the number
\* of input groups the entry indexes.
Entry(kind, composer, fn, reads) ==
    [kind |-> kind, composer |-> composer, fn |-> fn, reads |-> reads]

op_dsl_items ==
    <<Entry("Custom", "custom_str", "", 1),
      Entry("ReduceSum", "reduce_str", "sum", 1),
      Entry("ReduceMax", "reduce_str", "max", 1),
      Entry("ReduceMin", "reduce_str", "min", 1),
      Entry("ReduceProd", "reduce_str", "prod", 1),
      Entry("StridedSlice", "strided_slice_str", "", 1),
      Entry("CumSum", "cummulative_str", "cumsum", 1),
      Entry("CumProd", "cummulative_str", "cumprod", 1),
      Entry("Sin", "expr", "%s = np.sin(%s)", 1),
      Entry("Cos", "expr", "%s = np.cos(%s)", 1),
      Entry("Asin", "expr", "%s = np.arcsin(%s)", 1),
      Entry("ACos", "expr", "%s = np.arccos(%s)", 1),
      Entry("Sign", "expr", "%s = np.sign(%s)", 1),
      Entry("IsNan", "expr", "%s = np.isnan(%s)", 1),
      Entry("IsInf", "expr", "%s = np.isinf(%s)", 1),
      Entry("IsFinite", "expr", "%s = np.isfinite(%s)", 1),
      Entry("Tanh", "expr", "%s = np.tanh(%s)", 1),
      Entry("Mul", "expr", "%s = np.multiply(%s, %s)", 2),
      Entry("Pow", "expr", "%s = np.power(%s, %s)", 2),
      Entry("Sub", "expr", "%s = np.subtract(%s, %s)", 2),
      Entry("TensorAdd", "expr", "%s = np.add(%s, %s)", 2),
      Entry("Add", "expr", "%s = np.add(%s, %s)", 2),
      Entry("Rsqrt", "expr", "%s = 1.0/np.sqrt(%s)", 1),
      Entry("Neg", "expr", "%s = np.negative(%s)", 1),
      Entry("Floor", "expr", "%s = np.floor(%s)", 1),
      Entry("Exp", "expr", "%s = np.exp(%s)", 1),
      Entry("RealDiv", "expr", "%s = np.divide(%s, %s)", 2),
      Entry("Div", "expr", "%s = np.divide(%s, %s)", 2),
      Entry("FloorDiv", "expr", "%s = np.floor_divide(%s, %s)", 2),
      Entry("Mod", "expr", "%s = np.fmod(%s, %s)", 2),
      Entry("FloorMod", "expr", "%s = np.mod(%s, %s)", 2),
      Entry("Minimum", "expr", "%s = np.minimum(%s, %s)", 2),
      Entry("Maximum", "expr", "%s = np.maximum(%s, %s)", 2),
      Entry("Log", "expr", "%s = np.log(%s)", 1),
      Entry("Sqrt", "expr", "%s = np.sqrt(%s)", 1),
      Entry("Cast", "cast_str", "", 1),
      Entry("Reshape", "expr", "%s = np.reshape(%s, %s)", 1),
      Entry("OneHot", "expr", "%s = one_hot_np(%s, %s, %s, %s, %s, np.%s)", 3),
      Entry("ZerosLike", "expr", "%s = np.zeros_like(%s)", 1),
      Entry("AddN", "AddN", "%s = %s", 1),
      Entry("Tile", "expr", "%s = np.tile(%s, %s)", 1),
      Entry("Reciprocal", "expr", "%s = np.divide(1.0, %s)", 1),
      Entry("Equal", "expr", "%s = np.equal(%s, %s)", 2),
      Entry("NotEqual", "expr", "%s = np.not_equal(%s, %s)", 2),
      Entry("GreaterEqual", "expr", "%s = np.greater_equal(%s, %s)", 2),
      Entry("Select", "expr", "%s = np.where(%s, %s, %s)", 3),
      Entry("InplaceAssign", "InplaceAssign", "%s = %s; %s = %s", 3),
      Entry("Greater", "expr", "%s = np.greater(%s, %s)", 2),
      Entry("SelectGT", "expr", "%s = np.where(%s > %s, %s, %s)", 4),
      Entry("SelectLT", "expr", "%s = np.where(%s < %s, %s, %s)", 4),
      Entry("Abs", "expr", "%s = np.absolute(%s)", 1),
      Entry("LessEqual", "expr", "%s = np.less_equal(%s, %s)", 2),
      Entry("Less", "expr", "%s = np.less(%s, %s)", 2),
      Entry("EquivFormat", "expr", "%s = %s", 1),
      Entry("ExpandDims", "expr", "%s = np.expand_dims(%s, %s)", 1),
      Entry("ElemAny", "expr", "%s = (%s.all() > 0).astype(np.%s).reshape(1)", 1),
      Entry("Transpose", "transpose_str", "", 1),
      Entry("TransData", "trans_data_dsl", "", 1),
      Entry("BroadcastTo", "broadcast_str", "", 1),
      Entry("BatchMatMul", "matmul_str", "", 2),
      Entry("Assign", "Assign", "%s = %s; %s = %s", 2),
      Entry("MatMul", "matmul_str", "", 2),
      Entry("Conv2D", "conv_2d_str", "", 2),
      Entry("PadAkg", "pad_str", "", 1),
      Entry("UnPadAkg", "unpad_str", "", 1),
      Entry("Asinh", "expr", "%s = np.arcsinh(%s)", 1),
      Entry("Acosh", "expr", "%s = np.arccosh(%s)", 1),
      Entry("Atan2", "expr", "%s = np.arctan2(%s, %s)", 2),
      Entry("Expm1", "expr", "%s = np.expm1(%s)", 1),
      Entry("LogicalNot", "expr", "%s = np.logical_not(%s)", 1),
      Entry("LogicalAnd", "expr", "%s = np.logical_and(%s, %s)", 2),
      Entry("LogicalOr", "expr", "%s = np.logical_or(%s, %s)", 2),
      Entry("Erf", "expr", "%s = sp.special.erf(%s)", 1),
      Entry("TensorScatterAdd", "expr", "%s = tensor_scatter_add_np(%s, %s, %s)", 3),
      Entry("GatherNd", "expr", "%s = %s[tuple(%s.transpose().tolist())]", 2),
      Entry("UnsortedSegmentSum", "UnsortedSegmentSum", "%s = np.zeros([%s,] + %s[%s:]);  np.add.at(%s, %s, %s)", 2),
      Entry("Gather", "expr", "%s = gather_np(%s, %s, %s)", 2),
      Entry("StandardNormal", "expr", "%s = np.random.standard_normal(%s)", 0),
      Entry("CSRMV", "expr", "{} = csrmv_np({}, {}, {}, {}, {})", 4),
      Entry("CSRReduceSum", "expr", "{} = csr_reduce_sum_np({}, {}, {}, {}, {})", 3),
      Entry("CSRMul", "expr", "{} = csr_mul_np({}, {}, {}, {}, {})", 4),
      Entry("CSRDiv", "expr", "{} = csr_div_np({}, {}, {}, {}, {})", 4),
      Entry("CSRGather", "expr", "{} = csr_gather_np({}, {}, {}, {})", 3),
      Entry("CSRMM", "expr", "{} = csrmm_np({}, {}, {}, {}, {})", 4),
      Entry("CImag", "expr", "%s = np.imag(%s)", 1),
      Entry("CReal", "expr", "%s = np.real(%s)", 1),
      Entry("Complex", "expr", "%s = np.vectorize(complex)(%s, %s)", 2),
      Entry("Concat", "concat_str", "", 1)>>

\* Operator kinds the dict has no key for.
UnknownKinds == {"", "Softmax", "matmul", "GatherND"}

\* The dict with a value for the kinds of no entry too: a copy of the first
\* input.
op_dsl_with_default ==
    [k \in {op_dsl_items[i].kind : i \in 1..Len(op_dsl_items)} \cup UnknownKinds |->
        IF \E i \in 1..Len(op_dsl_items) : op_dsl_items[i].kind = k
        THEN op_dsl_items[CHOOSE i \in 1..Len(op_dsl_items) :
                              /\ op_dsl_items[i].kind = k
                              /\ \A j \in (i + 1)..Len(op_dsl_items) :
                                     op_dsl_items[j].kind # k]
        ELSE Entry(k, "expr", "%s = %s", 1)]

\* The dict the literal builds: one value per key, the last one written.
op_dsl ==
    [k \in {op_dsl_items[i].kind : i \in 1..Len(op_dsl_items)} |->
        op_dsl_items[CHOOSE i \in 1..Len(op_dsl_items) :
                         /\ op_dsl_items[i].kind = k
                         /\ \A j \in (i + 1)..Len(op_dsl_items) : op_dsl_items[j].kind # k]]

\* The names get_input gives for the first n input groups.
InputNamesOf(inputs, n) == [i \in 1..n |-> get_input(inputs[i][1])]

\* An entry that fills its format string in place:
\* out = <expression of the inputs and attributes>.
expr_str(entry, inputs, output, attr) ==
    <<NameStmt(<<output[1].tensor_name>>, entry.fn, InputNamesOf(inputs, entry.reads), <<>>)>>

\* op_dsl["Assign"]: "%s = %s; %s = %s" % (input 0, input 1, output, input 1)
assign_str(inputs, output, attr) ==
    <<NameStmt(<<get_input(inputs[1][1])>>, "copy", <<get_input(inputs[2][1])>>, <<>>),
      NameStmt(<<output[1].tensor_name>>, "copy", <<get_input(inputs[2][1])>>, <<>>)>>

\* inplace_assign_str with the output taken from the second input.
inplace_assign_str_from_source(inputs, output, attr) ==
    <<NameStmt(<<get_input(inputs[1][1])>>, "copy", <<get_input(inputs[2][1])>>, <<>>),
      NameStmt(<<output[1].tensor_name>>, "copy", <<get_input(inputs[2][1])>>, <<>>)>>

\* op_dsl["InplaceAssign"]: "%s = %s; %s = %s" % (input 0, input 1, output, input 2)
inplace_assign_str(inputs, output, attr) ==
    <<NameStmt(<<get_input(inputs[1][1])>>, "copy", <<get_input(inputs[2][1])>>, <<>>),
      NameStmt(<<output[1].tensor_name>>, "copy", <<get_input(inputs[3][1])>>, <<>>)>>

\* op_dsl["AddN"]: out = in_0 + in_1 + ... over the tensors of the first group.
addn_str(inputs, output, attr) ==
    <<NameStmt(<<output[1].tensor_name>>, "+",
               [i \in 1..Len(inputs[1]) |-> get_input(inputs[1][i])], <<>>)>>

\* op_dsl["UnsortedSegmentSum"]: out = np.zeros(...), then np.add.at(out,
\* input 1, input 0), which adds into out in place.
unsorted_segment_sum_str(inputs, output, attr) ==
    <<NameStmt(<<output[1].tensor_name>>, "np.zeros", <<>>,
               <<get_attr(attr, "num_segments"), inputs[1][1].shape, Len(inputs[2][1].shape)>>),
      NameStmt(<<>>, "np.add.at",
               <<output[1].tensor_name, get_input(inputs[2][1]), get_input(inputs[1][1])>>,
               <<>>)>>

\* The axes and keepdims reduce_str writes into its statement.
ReduceAxes(attr) ==
    LET axis_value == get_attr(attr, "axis")
    IN  IF Truthy(axis_value)
        THEN IF axis_value.t = "list" THEN axis_value.v ELSE <<axis_value.v>>
        ELSE <<>>

ReduceKeepdims(attr) ==
    LET keepdims_value == get_attr(attr, "keep_dims")
    IN  IF Truthy(keepdims_value) THEN keepdims_value ELSE PyBool(FALSE)

\* reduce_str: np.<op_type> over all axes when axis is empty, else over
\* tuple(axis) followed by np.reshape to the output's shape.
reduce_str(inputs, output, attr, op_type) ==
    LET axis == ReduceAxes(attr)
        name == get_input(inputs[1][1])
        outn == output[1].tensor_name
    IN  IF axis = <<>>
        THEN <<NameStmt(<<outn>>, op_type, <<name>>,
                        [all |-> TRUE, axis |-> <<>>, keepdims |-> ReduceKeepdims(attr)])>>
        ELSE <<NameStmt(<<outn>>, op_type, <<name>>,
                        [all |-> FALSE, axis |-> axis, keepdims |-> ReduceKeepdims(attr)]),
               NameStmt(<<outn>>, "np.reshape", <<outn>>, output[1].shape)>>

\* cast_str: out = np.array(value).astype(np.dst_type) for a literal input,
\* out = name.astype(np.dst_type) for a tensor.
cast_str(inputs, output, attr) ==
    LET dst_type == get_attr(attr, "dst_type")
    IN  IF inputs[1][1].value.t # "none"
        THEN <<NameStmt(<<output[1].tensor_name>>, "np.array.astype",
                        <<get_input(inputs[1][1])>>, dst_type)>>
        ELSE <<NameStmt(<<output[1].tensor_name>>, "astype",
                        <<get_input(inputs[1][1])>>, dst_type)>>

broadcast_str(inputs, output, attr) ==
    <<NameStmt(<<output[1].tensor_name>>, "np.broadcast_to", <<get_input(inputs[1][1])>>,
               get_attr(attr, "shape"))>>

transpose_str(inputs, output, attr) ==
    LET axes_value == get_attr(attr, "perm")
    IN  <<NameStmt(<<output[1].tensor_name>>, "np.transpose", <<get_input(inputs[1][1])>>,
                   IF Truthy(axes_value) THEN axes_value ELSE PyNone)>>

concat_str(inputs, output, attr) ==
    <<NameStmt(<<output[1].tensor_name>>, "np.concatenate",
               [i \in 1..Len(inputs[1]) |-> get_input(inputs[1][i])], get_attr(attr, "axis"))>>

pad_str(inputs, output, attr) ==
    <<NameStmt(<<output[1].tensor_name>>, "np.pad", <<get_input(inputs[1][1])>>,
               <<get_attr(attr, "head"), get_attr(attr, "tail"), get_attr(attr, "pad_val")>>)>>

\* cummulative_str: the statements bind axis and out (and, for exclusive,
\* shift and shift_axis) before the output name.
cummulative_str(inputs, outputs, attr, op_type) ==
    LET exclusive == get_attr(attr, "exclusive")
        reverse   == get_attr(attr, "reverse")
        axis      == get_attr(attr, "axis")
        name      == get_input(inputs[1][1])
    IN  <<NameStmt(<<"axis">>, "literal", <<>>, axis)>>
        \o (IF Truthy(reverse)
            THEN <<NameStmt(<<"out">>, "np.flip", <<name, "axis">>, <<>>),
                   NameStmt(<<"out">>, op_type, <<"out", "axis">>, <<>>)>>
            ELSE <<NameStmt(<<"out">>, op_type, <<name, "axis">>, <<>>)>>)
        \o (IF Truthy(exclusive)
            THEN <<NameStmt(<<"shift">>, "import", <<>>, <<>>),
                   NameStmt(<<"shift_axis">>, "literal", <<>>, Len(inputs[1][1].shape)),
                   NameStmt(<<>>, "setitem", <<"shift_axis", "axis">>, <<>>),
                   NameStmt(<<"out">>, "shift", <<"out", "shift_axis">>, <<>>)>>
            ELSE <<>>)
        \o (IF Truthy(reverse)
            THEN <<NameStmt(<<"out">>, "np.flip", <<"out", "axis">>, <<>>)>>
            ELSE <<>>)
        \o <<NameStmt(<<outputs[1].tensor_name>>, "copy", <<"out">>, <<>>)>>

\* unpad_str: m, n = ..., then the output is bound in the branch of the
\* if / elif that the rank of the input (4 or 2) selects, in no branch for
\* another rank.
unpad_str(inputs, output, attr) ==
    LET input_shape == inputs[1][1].shape
        unpad_after == get_attr(attr, "tail").v
        r           == Len(input_shape)
        u           == Len(unpad_after)
    IN  <<NameStmt(<<"m", "n">>, "literal", <<>>,
                   <<input_shape[r - 1] - unpad_after[u - 1], input_shape[r] - unpad_after[u]>>)>>
        \o (IF r = 4 \/ r = 2
            THEN <<NameStmt(<<output[1].tensor_name>>, "getitem",
                            <<get_input(inputs[1][1]), "m", "n">>, r)>>
            ELSE <<>>)

\* custom_str: the source in func_source_str, which defines func_name, then
\* out = func_name(inputs).
custom_str(inputs, output, attr) ==
    <<NameStmt(<<get_attr(attr, "func_name").v>>, "def", <<>>, <<>>),
      NameStmt(<<output[1].tensor_name>>, "call",
               <<get_attr(attr, "func_name").v>> \o InputNamesOf(inputs, Len(inputs)), <<>>)>>

\* conv_2d_str: the unpacking of the shapes and attributes, the extents,
\* the padded copy, and the loop nest over i, j, f that fills the output.
conv_2d_str(inputs, output, attr) ==
    LET shape_data        == inputs[1][1].shape
        shape_data_name   == inputs[1][1].tensor_name
        shape_filter      == inputs[2][1].shape
        shape_filter_name == inputs[2][1].tensor_name
        padding           == get_attr(attr, "pad_list").v
        has_pad           == SumOver(padding, 1..Len(padding)) > 0
        stride            == PySlice(get_attr(attr, "stride").v, 2, 4)
        dilation          == PySlice(get_attr(attr, "dilation").v, 2, 4)
        output_name       == output[1].tensor_name
    IN  <<NameStmt(<<"n", "h", "w", "c">>, "literal", <<>>, shape_data),
          NameStmt(<<"out_c", "kh", "kw", "c">>, "literal", <<>>, shape_filter),
          NameStmt(<<"s_h", "s_w">>, "literal", <<>>, stride),
          NameStmt(<<"d_h", "d_w">>, "literal", <<>>, dilation),
          NameStmt(<<"p_l", "p_r", "p_t", "p_b">>, "literal", <<>>, padding),
          NameStmt(<<"out_h">>, "(h + p_t + p_b - kh) // s_h + 1",
                   <<"h", "p_t", "p_b", "kh", "s_h">>, <<>>),
          NameStmt(<<"out_w">>, "(w + p_l + p_r - kw) // s_w + 1",
                   <<"w", "p_l", "p_r", "kw", "s_w">>, <<>>),
          NameStmt(<<"out_shape">>, "tuple", <<"n", "out_h", "out_w", "out_c">>, <<>>),
          NameStmt(<<"shape_data_pad">>, "tuple",
                   <<"n", "h", "p_t", "p_b", "w", "p_l", "p_r", "c">>, <<>>),
          NameStmt(<<"data_pad">>, "np.zeros", <<"shape_data_pad">>, inputs[1][1].data_type)>>
        \o (IF has_pad
            THEN <<NameStmt(<<>>, "setitem",
                            <<"data_pad", "p_t", "h", "p_l", "w", shape_data_name>>, <<>>)>>
            ELSE <<NameStmt(<<"data_pad">>, "copy", <<shape_data_name>>, <<>>)>>)
        \o <<NameStmt(<<"whd">>, "(kh - 1) * d_h + 1", <<"kh", "d_h">>, <<>>),
             NameStmt(<<"wwd">>, "(kw - 1) * d_w + 1", <<"kw", "d_w">>, <<>>),
             NameStmt(<<output_name>>, "np.zeros", <<"out_shape">>, output[1].data_type),
             NameStmt(<<"i", "j", "f">>, "for", <<"out_h", "out_w", "out_c">>, <<>>),
             NameStmt(<<>>, "setitem",
                      <<output_name, "i", "j", "f", "data_pad", "s_h", "whd", "d_h", "s_w",
                        "wwd", "d_w", shape_filter_name>>, <<>>)>>

\* trans_data_dsl: the source of the converter get_trans_data_str chose
\* (a def) and the call that binds the output, or its error.
trans_data_dsl(inputs, output, attr) ==
    LET res == get_trans_data_str(get_input(inputs[1][1]), output[1].tensor_name,
                                  output[1].shape, get_attr(attr, "src_format"),
                                  get_attr(attr, "dst_format"))
    IN  IF IsRaised(res) THEN res
        ELSE [stmts |-> <<NameStmt(<<res.stmts[1].op>>, "def", <<>>, <<>>),
                          NameStmt(<<res.stmts[1].target>>, "call",
                                   <<res.stmts[1].op, res.stmts[1].a>>, res.stmts[1].p)>>]

\* The fragment of matmul_str at the top level: the def of matmul_func and
\* the call that binds the output.  The statements of the body bind names
\* of the function's own scope only.
matmul_top(inputs, output, attr) ==
    LET res == matmul_str(inputs, output, attr)
    IN  IF IsRaised(res) THEN res
        ELSE [stmts |-> <<NameStmt(<<res.func_name>>, "def", <<>>, res.body),
                          NameStmt(<<res.ret>>, "call", <<res.func_name>> \o res.params,
                                   <<>>)>>]

\* The fragment of strided_slice_str at the top level: every statement
\* binds the output name, the first from the input, the others from itself.
strided_slice_top(inputs, output, attr) ==
    LET frag == strided_slice_str([shape            |-> inputs[1][1].shape,
                                   begin            |-> get_attr(attr, "begin").v,
                                   end              |-> get_attr(attr, "end").v,
                                   strides          |-> get_attr(attr, "strides").v,
                                   begin_mask       |-> get_attr(attr, "begin_mask").v,
                                   end_mask         |-> get_attr(attr, "end_mask").v,
                                   ellipsis_mask    |-> get_attr(attr, "ellipsis_mask").v,
                                   new_axis_mask    |-> get_attr(attr, "new_axis_mask").v,
                                   shrink_axis_mask |-> get_attr(attr, "shrink_axis_mask").v])
    IN  [i \in 1..Len(frag) |->
            NameStmt(<<output[1].tensor_name>>, frag[i].op,
                     <<IF i = 1 THEN get_input(inputs[1][1]) ELSE output[1].tensor_name>>,
                     frag[i])]

\* entry(inputs, output, attr): the call of a value of the dict, giving
\* [stmts] or the error its composer raises.
CallEntry(entry, inputs, output, attr) ==
    CASE entry.composer = "expr" -> [stmts |-> expr_str(entry, inputs, output, attr)]
      [] entry.composer = "Assign" -> [stmts |-> assign_str(inputs, output, attr)]
      [] entry.composer = "InplaceAssign" ->
             [stmts |-> inplace_assign_str(inputs, output, attr)]
      [] entry.composer = "AddN" -> [stmts |-> addn_str(inputs, output, attr)]
      [] entry.composer = "UnsortedSegmentSum" ->
             [stmts |-> unsorted_segment_sum_str(inputs, output, attr)]
      [] entry.composer = "reduce_str" ->
             [stmts |-> reduce_str(inputs, output, attr, entry.fn)]
      [] entry.composer = "cast_str" -> [stmts |-> cast_str(inputs, output, attr)]
      [] entry.composer = "broadcast_str" -> [stmts |-> broadcast_str(inputs, output, attr)]
      [] entry.composer = "transpose_str" -> [stmts |-> transpose_str(inputs, output, attr)]
      [] entry.composer = "concat_str" -> [stmts |-> concat_str(inputs, output, attr)]
      [] entry.composer = "pad_str" -> [stmts |-> pad_str(inputs, output, attr)]
      [] entry.composer = "unpad_str" -> [stmts |-> unpad_str(inputs, output, attr)]
      [] entry.composer = "cummulative_str" ->
             [stmts |-> cummulative_str(inputs, output, attr, entry.fn)]
      [] entry.composer = "custom_str" -> [stmts |-> custom_str(inputs, output, attr)]
      [] entry.composer = "conv_2d_str" -> [stmts |-> conv_2d_str(inputs, output, attr)]
      [] entry.composer = "strided_slice_str" ->
             [stmts |-> strided_slice_top(inputs, output, attr)]
      [] entry.composer = "matmul_str" -> matmul_top(inputs, output, attr)
      [] entry.composer = "trans_data_dsl" -> trans_data_dsl(inputs, output, attr)

\* registry[kind]: the value of the key, or the KeyError of a dict for a
\* key it does not have.
Lookup(registry, kind) ==
    IF kind \in DOMAIN registry THEN registry[kind] ELSE Raise("KeyError", {kind})

(***************************************************************************)
(* Executing a fragment in a namespace.  The namespace binds names to      *)
(* values; a value is the sequence of tokens that says how it was made:    *)
(* <<name>> for the array a tensor name held at the start, the operation   *)
(* and the values it read for a computed one.                              *)
(***************************************************************************)

RECURSIVE ConcatAll(_)
ConcatAll(ss) == IF ss = <<>> THEN <<>> ELSE Head(ss) \o ConcatAll(Tail(ss))

\* The value an expression reads for a name, or for a literal written in
\* place of one.
ValueOf(table, r) == IF r \in DOMAIN table THEN table[r] ELSE <<r>>

\* One top-level statement on [table, bound]: an assignment, def, import or
\* for binds its targets and records them in order; a statement without
\* targets changes the object its first name holds.
ExecStatement(ns, st) ==
    LET read    == ConcatAll([i \in 1..Len(st.reads) |-> ValueOf(ns.table, st.reads[i])])
        value   == IF st.op = "copy" THEN ValueOf(ns.table, st.reads[1]) ELSE <<st.op>> \o read
        targets == {st.targets[i] : i \in 1..Len(st.targets)}
    IN  IF st.targets = <<>>
        THEN [ns EXCEPT !.table[st.reads[1]] = value]
        ELSE [table |-> [n \in DOMAIN ns.table \cup targets |->
                            IF n \in targets
                            THEN IF Len(st.targets) = 1 THEN value ELSE value \o <<n>>
                            ELSE ns.table[n]],
              bound |-> ns.bound \o st.targets]

RECURSIVE ExecFragment(_, _)
\* exec(fragment, table)
ExecFragment(ns, stmts) ==
    IF stmts = <<>> THEN ns
    ELSE ExecFragment(ExecStatement(ns, Head(stmts)), Tail(stmts))

PyInt(x) == [t |-> "int", v |-> x]

Attr(name, value) == [name |-> name, value |-> value]

\* The tensor names of a graph, and the names its nodes give their outputs.
TensorNames == {"x", "y", "n"}
OutputNames == {"z", "out"}

\* The composer a node of the given kind is written for ("none" for a kind
\* the dict does not have).
NodeForm(kind) ==
    IF kind \in DOMAIN op_dsl THEN op_dsl[kind] ELSE Entry(kind, "none", "", 1)

SliceAttr(begin, end, strides, masks) ==
    <<Attr("begin", PyList(begin)), Attr("end", PyList(end)),
      Attr("strides", PyList(strides)),
      Attr("begin_mask", PyInt(masks[1])), Attr("end_mask", PyInt(masks[2])),
      Attr("ellipsis_mask", PyInt(masks[3])), Attr("new_axis_mask", PyInt(masks[4])),
      Attr("shrink_axis_mask", PyInt(masks[5]))>>

Variant(shapes, many, attr) == [shapes |-> shapes, many |-> many, attr |-> attr]

\* The nodes drawn for a composer, in a sequence: the shapes of the input
\* groups, whether the first group holds several tensors, and the
\* attribute list.
NodeVariants(form) ==
    CASE form.composer = "reduce_str" ->
             <<Variant(<<<<2, 2>>>>, FALSE, <<>>),
               Variant(<<<<2, 2>>>>, FALSE, <<Attr("axis", PyList(<<0>>))>>),
               Variant(<<<<2, 2>>>>, FALSE, <<Attr("axis", PyInt(0))>>),
               Variant(<<<<2, 2>>>>, FALSE, <<Attr("axis", PyList(<<>>))>>),
               Variant(<<<<2, 2>>>>, FALSE, <<Attr("axis", PyList(<<0, 1>>))>>),
               Variant(<<<<2, 2>>>>, FALSE,
                       <<Attr("axis", PyInt(1)), Attr("keep_dims", PyBool(TRUE))>>)>>
      [] form.composer = "cummulative_str" ->
             [k \in 1..4 |->
                 Variant(<<<<2, 2>>>>, FALSE,
                         <<Attr("exclusive", PyBool(k > 2)), Attr("reverse", PyBool(k % 2 = 0)),
                           Attr("axis", PyInt(0))>>)]
      [] form.composer = "unpad_str" ->
             [k \in 1..3 |->
                 LET sh == <<<<4, 4>>, <<2, 4, 4>>, <<1, 2, 4, 4>>>>[k]
                 IN  Variant(<<sh>>, FALSE,
                             <<Attr("tail", PyList([i \in 1..Len(sh) |-> 1]))>>)]
      [] form.composer = "conv_2d_str" ->
             [k \in 1..2 |->
                 Variant(<<<<1, 3, 3, 1>>, <<1, 2, 2, 1>>>>, FALSE,
                         <<Attr("pad_list", PyList([i \in 1..4 |-> k - 1])),
                           Attr("stride", PyList(<<1, 1, 1, 1>>)),
                           Attr("dilation", PyList(<<1, 1, 1, 1>>))>>)]
      [] form.composer = "matmul_str" ->
             [k \in 1..4 |->
                 LET f == IF k > 2 THEN "FRACTAL_NZ" ELSE "DefaultFormat"
                 IN  Variant(<<OperandShape(f, "missing"), OperandShape(f, "missing")>>
                             \o (IF k % 2 = 0 THEN <<<<16>>>> ELSE <<>>),
                             FALSE, AttrOf(f, f, "missing", "False", "False"))]
      [] form.composer = "trans_data_dsl" ->
             [k \in 1..16 |->
                 LET fs == <<"DefaultFormat", "NCHW", "FRACTAL_NZ", "NC1HWC0">>
                 IN  Variant(<<<<2, 2>>>>, FALSE,
                             <<Attr("src_format", PyStr(fs[((k - 1) \div 4) + 1])),
                               Attr("dst_format", PyStr(fs[((k - 1) % 4) + 1]))>>)]
      [] form.composer = "strided_slice_str" ->
             [k \in 1..4 |->
                 Variant(<<<<2, 2>>>>, FALSE,
                         SliceAttr(<<0, 0>>, <<2, 2>>, <<1, 1>>,
                                   <<0, 0, 0, (k - 1) % 2, 2 * ((k - 1) \div 2)>>))]
      [] form.composer = "custom_str" ->
             [k \in 1..2 |->
                 Variant(<<<<2, 2>>>>, FALSE,
                         <<Attr("func_name", PyStr(<<"my_func", "x">>[k]))>>)]
      [] form.composer = "cast_str" ->
             <<Variant(<<<<2, 2>>>>, FALSE, <<Attr("dst_type", PyStr("float16"))>>)>>
      [] form.composer \in {"AddN", "concat_str"} ->
             <<Variant(<<<<2, 2>>>>, TRUE, <<Attr("axis", PyInt(0))>>)>>
      [] OTHER ->
             <<Variant([i \in 1..form.reads |-> <<2, 2>>], FALSE, <<>>)>>

InitRegistry ==
    /\ pc = "start"
    /\ out = NoValue
    /\ \E kind \in DOMAIN op_dsl \cup UnknownKinds, outn \in OutputNames :
       \E k \in 1..Len(NodeVariants(NodeForm(kind))) :
       \E names \in [1..Len(NodeVariants(NodeForm(kind))[k].shapes) -> TensorNames] :
          LET v == NodeVariants(NodeForm(kind))[k]
          IN
          arg = [registry |-> op_dsl,
                 kind     |-> kind,
                 inputs   |-> [i \in 1..Len(v.shapes) |->
                                  <<Desc(names[i], "float32", v.shapes[i], "DefaultFormat")>>
                                  \o (IF i = 1 /\ v.many
                                      THEN <<Desc("y", "float32", v.shapes[i], "DefaultFormat")>>
                                      ELSE <<>>)],
                 output   |-> <<Desc(outn, "float32", <<2, 2>>, "DefaultFormat")>>,
                 attr     |-> v.attr,
                 table    |-> [nm \in TensorNames |-> <<nm>>]]

\* The harness looks the node's kind up in the registry and calls the
\* entry on the node.
Dispatch ==
    /\ pc = "start"
    /\ LET entry == Lookup(arg.registry, arg.kind)
       IN  IF IsRaised(entry)
           THEN out' = [res |-> entry] /\ pc' = "lookup_raised"
           ELSE LET res == CallEntry(entry, arg.inputs, arg.output, arg.attr)
                IN  /\ out' = [res |-> res]
                    /\ pc' = IF IsRaised(res) THEN "compose_raised" ELSE "composed"
    /\ UNCHANGED arg

\* The harness executes the fragment in its name table.
Execute ==
    /\ pc = "composed"
    /\ out' = [res |-> out.res,
               ns  |-> ExecFragment([table |-> arg.table, bound |-> <<>>], out.res.stmts)]
    /\ pc' = "executed"
    /\ UNCHANGED arg

NextRegistry == Dispatch \/ Execute

SpecRegistry == InitRegistry /\ [][NextRegistry]_vars

\* C11: looking up an operator kind that is no key of the registry fails
\* with an error, gives no entry and no fragment, and leaves the registry
\* as it was.
C11_UnknownKindFails ==
    (arg.kind \in UnknownKinds /\ pc # "start") =>
        /\ pc = "lookup_raised"
        /\ IsRaised(out.res)
        /\ out.res.raised = "KeyError"
        /\ DOMAIN arg.registry = {op_dsl_items[i].kind : i \in 1..Len(op_dsl_items)}

\* C11 witness: an unknown kind has been looked up.
C11_Witness == pc = "lookup_raised" /\ arg.kind = "Softmax"

\* C13: for every kind but Assign and InplaceAssign, executing the fragment
\* binds no name of the table other than the output's: no input name and no
\* other name is created or rebound.
C13_OnlyOutputBound ==
    (pc = "executed" /\ arg.kind \notin {"Assign", "InplaceAssign"}) =>
        \A i \in 1..Len(out.ns.bound) : out.ns.bound[i] = arg.output[1].tensor_name

\* C14: after Assign(target, source) the target and the output hold the
\* source value; after InplaceAssign(target, source, result) the target
\* holds the source value and the output the value of the third input; the
\* target is written first, the output second, and nothing else changes.
C14_WriteThrough ==
    (pc = "executed" /\ arg.kind \in {"Assign", "InplaceAssign"}) =>
        LET target == get_input(arg.inputs[1][1])
            source == get_input(arg.inputs[2][1])
            outn   == arg.output[1].tensor_name
            after  == out.ns.table
        IN  /\ out.ns.bound = <<target, outn>>
            /\ after[target] = arg.table[source]
            /\ IF arg.kind = "Assign"
               THEN after[outn] = arg.table[source]
               ELSE LET third == get_input(arg.inputs[3][1])
                    IN  /\ after[outn] = after[third]
                        /\ third # target => after[outn] = arg.table[third]
            /\ DOMAIN after = DOMAIN arg.table \cup {outn}
            /\ \A nm \in DOMAIN arg.table \ {target} : after[nm] = arg.table[nm]

\* C14 witness: an InplaceAssign with three different tensors has run.
C14_Witness ==
    /\ pc = "executed"
    /\ arg.kind = "InplaceAssign"
    /\ get_input(arg.inputs[1][1]) = "x"
    /\ get_input(arg.inputs[2][1]) = "y"
    /\ get_input(arg.inputs[3][1]) = "n"
    /\ out.ns.table["x"] = <<"y">>
    /\ out.ns.table[arg.output[1].tensor_name] = <<"n">>

\* C12: the fragment of kind GatherNd suppresses out-of-bounds coordinates:
\* a coordinate with a component below 0 or at or past the extent of its
\* axis gives a slice of zeros; it neither raises nor wraps around.
C12_RegistryGatherSuppresses ==
    (pc \in {"indexed", "index_raised"} /\ Len(arg.indices.shape) > 1) =>
        \A i \in 0..(arg.indices.shape[1] - 1) :
            ~Inside(arg.data.shape, CoordinateOf(arg.indices, i)) =>
                /\ ~IsRaised(out)
                /\ \A j \in 1..Len(OutSlice(out, arg.indices, i)) :
                       OutSlice(out, arg.indices, i)[j] = 0

\* Axis i (1-based) has its bit set in the mask.
Marked(mask, i) == MaskBit(BinReversed(mask), i - 1)

\* C16: every declared axis whose ellipsis-mask or new-axis-mask bit is set
\* and whose shrink-axis bit is clear gets the slice 0:shape[i]:1, whatever
\* begin[i], end[i], strides[i] and its begin-mask and end-mask bits are.
C16_PassThroughAxisUnitStride ==
    pc # "start"
    => \A i \in 1..Len(arg.shape) :
          ( /\ Marked(arg.ellipsis_mask, i) \/ Marked(arg.new_axis_mask, i)
            /\ ~Marked(arg.shrink_axis_mask, i) )
          => out.res[1].slices[i] = <<0, arg.shape[i], 1>>

\* Axis i (1-based) is the only axis with its shrink-axis-mask bit set.
OnlyShrunk(i) ==
    \A k \in 1..Len(arg.shape) : Marked(arg.shrink_axis_mask, k) <=> k = i

\* The axes of an array that are axes of the input, in order.
OriginalAxes(x) == SelectSeq(x.axes, LAMBDA ax : ax.from # -1)

\* C17: when axis i is the only axis with its shrink-axis bit set and the
\* resolved start s is a valid index of it, negative or not, the emitted
\* slice is s:s+1:1, the sliced axis has length exactly 1 and holds the
\* input's index s, and the removal step succeeds and leaves the sliced
\* tensor without axis i.
C17_ShrinkRemovesAxisAtStart ==
    pc # "start"
    => \A i \in 1..Len(arg.shape) :
          LET s == out.res[1].slices[i][1]
          IN  (OnlyShrunk(i) /\ s >= -arg.shape[i] /\ s < arg.shape[i])
              => /\ out.res[1].slices[i] = <<s, s + 1, 1>>
                 /\ Sliced.axes[i].sel = <<IF s < 0 THEN s + arg.shape[i] ELSE s>>
                 /\ pc # "run_raised"
                 /\ pc = "run" => OriginalAxes(out.val) = RemoveAt(Sliced.axes, i - 1)

\* The new-axis index and the shrink-axis index the loop records.
RecordedNewAxis == LastMarked(BinReversed(arg.new_axis_mask), Len(arg.begin))

RecordedShrinkAxis == LastMarked(BinReversed(arg.shrink_axis_mask), Len(arg.begin))

\* C18: when both a new-axis index i and a shrink-axis index j are
\* recorded, for every pair i, j, the insertion step is emitted before the
\* removal step, and the removal step removes the input's axis j, sliced
\* to length 1: not the inserted axis and not another axis of the input.
C18_RemovalHitsSlicedAxis ==
    (pc # "start" /\ RecordedNewAxis # -1 /\ RecordedShrinkAxis # -1)
    => /\ Len(out.res) = 3
       /\ out.res[2].op = "expand_dims" /\ out.res[2].axis = RecordedNewAxis
       /\ out.res[3].op = "squeeze" /\ out.res[3].axis = RecordedShrinkAxis
       /\ pc # "run_raised"
       /\ pc = "run"
          => /\ OriginalAxes(out.val) = RemoveAt(Sliced.axes, RecordedShrinkAxis)
             /\ \E k \in 1..Len(out.val.axes) : out.val.axes[k].from = -1

\* The statements of a fragment with the given operation, in order.
StepsOf(res, op) == SelectSeq(res, LAMBDA st : st.op = op)

RightDenseShape ==
    LET right == arg.inputs[2][1]
    IN  IF right.format = "FRACTAL_NZ"
        THEN convert_fracal_shape(right.shape, PyStr("zN")).v
        ELSE right.shape

ProductTrailingDim ==
    LET d == RightDenseShape
    IN  IF Truthy(get_attr(arg.attr, "transpose_b")) THEN d[Len(d) - 1] ELSE d[Len(d)]

\* C20: for every MatMul / BatchMatMul node with a third (bias) input,
\* whatever the right operand's format and the transpose_b flag, matmul_str
\* succeeds and returns a procedure that adds the bias to the product
\* after the product is computed, and a replacement bias of the product's
\* trailing dimension is synthesized before the add if and only if the
\* declared length of the bias differs from that dimension.  (Nodes whose
\* output format has no conversion from DefaultFormat are left aside.)
C20_BiasAddedAfterProduct ==
    ( /\ pc # "start" /\ Len(arg.inputs) > 2
      /\ arg.output[1].format \in {"DefaultFormat", "FRACTAL_NZ"} )
    => /\ pc \in {"matmul_emitted", "matmul_run"}
       /\ ~IsRaised(out.res)
       /\ LET body == out.res.body
               k    == ProductAt(body)
               outn == arg.output[1].tensor_name
               bias == arg.inputs[3][1]
           IN  \E a \in (k + 1)..Len(body) :
                   /\ body[a] = Stmt("add", outn, outn, get_input(bias), "")
                   /\ (\E j \in 1..(a - 1) :
                          body[j] = Stmt("random_gaussian", get_input(bias), "", "",
                                         <<ProductTrailingDim, bias.data_type>>))
                      <=> bias.shape[1] # ProductTrailingDim

(***************************************************************************)
(* Running the Conv2D fragment.  The integers the fragment binds are       *)
(* followed, and for every output position the rows and columns of the     *)
(* padded input that its window slice selects.                             *)
(***************************************************************************)

\* The names of the fragment that hold an integer.
ConvNames ==
    {"n", "h", "w", "c", "out_c", "kh", "kw", "s_h", "s_w", "d_h", "d_w",
     "p_l", "p_r", "p_t", "p_b", "out_h", "out_w", "whd", "wwd"}

\* The integer names after one statement of the fragment.
RunConvStatement(env, st) ==
    CASE st.op = "literal" ->
             [x \in ConvNames |->
                 IF \E k \in 1..Len(st.targets) : st.targets[k] = x
                 THEN st.p[CHOOSE k \in 1..Len(st.targets) : st.targets[k] = x]
                 ELSE env[x]]
      [] st.op \in {"(h + p_t + p_b - kh) // s_h + 1", "(w + p_l + p_r - kw) // s_w + 1"} ->
             \* // with a positive divisor rounds down, as \div does
             [env EXCEPT ![st.targets[1]] =
                 ((env[st.reads[1]] + env[st.reads[2]] + env[st.reads[3]] - env[st.reads[4]])
                  \div env[st.reads[5]]) + 1]
      [] st.op \in {"(kh - 1) * d_h + 1", "(kw - 1) * d_w + 1"} ->
             [env EXCEPT ![st.targets[1]] = (env[st.reads[1]] - 1) * env[st.reads[2]] + 1]
      [] OTHER -> env

RECURSIVE RunConvBindings(_, _, _)
\* The integer names after the statements k .. of the fragment.
RunConvBindings(env, res, k) ==
    IF k > Len(res) THEN env
    ELSE RunConvBindings(RunConvStatement(env, res[k]), res, k + 1)

\* data_pad[:, i*s_h:i*s_h+whd:d_h, j*s_w:j*s_w+wwd:d_w, :] at position
\* (i, j): the rows and the columns of data_pad the slice selects.
ConvWindow(env, i, j) ==
    [rows |-> SliceIndices(i * env["s_h"], i * env["s_h"] + env["whd"], env["d_h"],
                           env["h"] + env["p_t"] + env["p_b"]),
     cols |-> SliceIndices(j * env["s_w"], j * env["s_w"] + env["wwd"], env["d_w"],
                           env["w"] + env["p_l"] + env["p_r"])]

\* The product of a window of r rows and q columns with a filter of kh
\* rows and kw columns broadcasts when each pair of extents is equal or
\* has a 1.
Broadcasts(a, b) == a = b \/ a = 1 \/ b = 1

\* The loop nest over i and j: the window of every output position, and
\* the ValueError of the first product that does not broadcast.
RunConvLoops(env) ==
    LET windows == [i \in 1..env["out_h"] |->
                      [j \in 1..env["out_w"] |-> ConvWindow(env, i - 1, j - 1)]]
        fits    == \A i \in 1..env["out_h"], j \in 1..env["out_w"] :
                      /\ Broadcasts(Len(windows[i][j].rows), env["kh"])
                      /\ Broadcasts(Len(windows[i][j].cols), env["kw"])
    IN  [windows |-> windows,
         val     |-> IF fits THEN [shape |-> <<env["n"], env["out_h"], env["out_w"], env["out_c"]>>]
                     ELSE Raise("ValueError", {})]

\* The largest extent of the input's height and width, the largest
\* padding of a side, and the kernel extents, strides and dilations drawn.
MaxConvExtent == 3
MaxPad == 1
KernelExtents == {1, 2, 3}
ConvStrides == {1, 2}
ConvDilations == {1, 2}

InitConv ==
    /\ pc = "start"
    /\ out = NoValue
    /\ \E h \in 1..MaxConvExtent, w \in 1..MaxConvExtent,
          kh \in KernelExtents, kw \in KernelExtents,
          s_h \in ConvStrides, s_w \in ConvStrides,
          d_h \in ConvDilations, d_w \in ConvDilations,
          pad \in [1..4 -> 0..MaxPad] :
          arg = [inputs |-> <<<<Desc("x", "float16", <<1, h, w, 1>>, "DefaultFormat")>>,
                              <<Desc("y", "float16", <<1, kh, kw, 1>>, "DefaultFormat")>>>>,
                 output |-> <<Desc("out", "float16", <<>>, "DefaultFormat")>>,
                 attr |-> <<Attr("pad_list", PyList(pad)),
                            Attr("stride", PyList(<<1, 1, s_h, s_w>>)),
                            Attr("dilation", PyList(<<1, 1, d_h, d_w>>))>>]

\* op_dsl["Conv2D"]: emit the fragment.
Conv2D ==
    /\ pc = "start"
    /\ out' = [res |-> conv_2d_str(arg.inputs, arg.output, arg.attr)]
    /\ pc' = "conv_emitted"
    /\ UNCHANGED arg

\* The harness executes the emitted fragment.
RunConv2D ==
    /\ pc = "conv_emitted"
    /\ LET env == RunConvBindings([x \in ConvNames |-> 0], out.res, 1)
           run == RunConvLoops(env)
       IN  /\ out' = [res |-> out.res, env |-> env, windows |-> run.windows, val |-> run.val]
           /\ pc' = IF IsRaised(run.val) THEN "conv_raised" ELSE "conv_run"
    /\ UNCHANGED arg

NextConv == Conv2D \/ RunConv2D

SpecConv == InitConv /\ [][NextConv]_vars

\* C21: for every input size, kernel size, padding, stride >= 1 and
\* dilation >= 1, the extents out_h and out_w the fragment computes are
\* such that every output position (i, j) reads exactly kh x kw taps that
\* all lie inside the padded input: i*s_h + (kh-1)*d_h < h + p_t + p_b for
\* all i < out_h and j*s_w + (kw-1)*d_w < w + p_l + p_r for all j < out_w.
C21_WindowsInsidePaddedInput ==
    pc \in {"conv_run", "conv_raised"}
    => LET e == out.env
       IN  \A i \in 1..e["out_h"], j \in 1..e["out_w"] :
              /\ (i - 1) * e["s_h"] + (e["kh"] - 1) * e["d_h"] < e["h"] + e["p_t"] + e["p_b"]
              /\ (j - 1) * e["s_w"] + (e["kw"] - 1) * e["d_w"] < e["w"] + e["p_l"] + e["p_r"]
              /\ Len(out.windows[i][j].rows) = e["kh"]
              /\ Len(out.windows[i][j].cols) = e["kw"]

\* The kinds the registry composes with reduce_str.
ReduceKinds == {"ReduceSum", "ReduceMax", "ReduceMin", "ReduceProd"}

\* The node carries an attribute of the given name.
Carries(name) == \E k \in 1..Len(arg.attr) : arg.attr[k].name = name

\* The axes the node's axis attribute lists: the list itself, or the one
\* integer it is.
ListedAxes ==
    LET value == get_attr(arg.attr, "axis")
    IN  IF value.t = "list" THEN value.v ELSE <<value.v>>

\* C22: for ReduceSum / ReduceMax / ReduceMin / ReduceProd, whenever the
\* node carries an axis attribute the generated reduction is over exactly
\* the axes it lists, the integer 0 included, and the reduction over all
\* axes is generated only when the attribute is absent or an empty list.
C22_ReduceOverListedAxes ==
    (pc \in {"composed", "executed"} /\ arg.kind \in ReduceKinds)
    => LET st == out.res.stmts[1]
       IN  /\ st.op = op_dsl[arg.kind].fn
           /\ (Carries("axis") /\ ListedAxes # <<>>)
              => (~st.p.all /\ st.p.axis = ListedAxes)
           /\ st.p.all => (~Carries("axis") \/ ListedAxes = <<>>)

=============================================================================
